---- MODULE Spec2Model ----
(***************************************************************************)
(* Model of the vin-tools submission analyzers:                            *)
(*   - InsuranceSubmissionAnalyzer (insurance_submission_analyzer_tool.py) *)
(*   - SubmissionCompletenessChecker (submission_completeness_checker.py)  *)
(*                                                                         *)
(* Every tool is synchronous and single-threaded: one invocation takes a   *)
(* document and returns a result.  The state is the analyzer object's      *)
(* configuration, the class-level configuration of the checker, and the    *)
(* operation that was invoked (op), its arguments (args) and what it       *)
(* returned (ret).                                                         *)
(*                                                                         *)
(* JSON values are tagged records:                                         *)
(*   [t |-> "none"]                 None / null / not found                *)
(*   [t |-> "str",  s |-> chars]    a string, as a sequence of characters  *)
(*   [t |-> "num",  n |-> i]        a number                               *)
(*   [t |-> "bool", b |-> b]        a boolean                              *)
(*   [t |-> "list", l |-> seq]      a list                                 *)
(*   [t |-> "dict", d |-> fcn]      a mapping from string keys to values   *)
(* Percentages and scores are integers; a value rounded to k decimals is   *)
(* held as the integer number of 10^-k units.                              *)
(***************************************************************************)
EXTENDS Integers, Sequences, FiniteSets, TLC

VARIABLES
    op,                       \* the operation invoked ("idle" before any)
    args,                     \* its arguments
    ret,                      \* its return value
    high_quality_threshold,   \* InsuranceSubmissionAnalyzer.high_quality_threshold
    good_quality_threshold,   \* InsuranceSubmissionAnalyzer.good_quality_threshold
    triage_elements,          \* InsuranceSubmissionAnalyzer.triage_elements
    appetite_elements,        \* InsuranceSubmissionAnalyzer.appetite_elements
    clearance_elements,       \* InsuranceSubmissionAnalyzer.clearance_elements
    field_mapping             \* InsuranceSubmissionAnalyzer.field_mapping

vars == <<op, args, ret, high_quality_threshold, good_quality_threshold,
          triage_elements, appetite_elements, clearance_elements, field_mapping>>

analyzer_vars == <<high_quality_threshold, good_quality_threshold,
                   triage_elements, appetite_elements, clearance_elements,
                   field_mapping>>

----------------------------------------------------------------------------
(* Bounds of the model *)

\* longest path handed to get_value_from_path
MaxPathLen == 3

\* longest triage or appetite list a caller configures
MaxReq == 3

\* most paths a checker field mapping lists for one field
MaxPaths == 2

\* most fields one call's user_modifications name
MaxMods == 2

----------------------------------------------------------------------------
(* JSON values *)

None == [t |-> "none"]

Str(chars) == [t |-> "str", s |-> chars]

Num(n) == [t |-> "num", n |-> n]

Bool(b) == [t |-> "bool", b |-> b]

List(items) == [t |-> "list", l |-> items]

Dict(f) == [t |-> "dict", d |-> f]

\* marks a key left out of a mapping built by Obj
Absent == [t |-> "absent"]

\* the mapping holding the <<key, value>> pairs whose value is not Absent
Obj(pairs) ==
    LET kept == {i \in DOMAIN pairs : pairs[i][2] # Absent}
        keys == {pairs[i][1] : i \in kept}
    IN  Dict([k \in keys |-> pairs[CHOOSE i \in kept : pairs[i][1] = k][2]])

\* path segments: a string key or an integer index
K(s) == [k |-> "key", s |-> s]

I(i) == [k |-> "idx", i |-> i]

IsDict(v) == v.t = "dict"

IsList(v) == v.t = "list"

IsStr(v) == v.t = "str"

\* len(v) of a string, list or mapping
PyLen(v) ==
    CASE v.t = "str" -> Len(v.s)
      [] v.t = "list" -> Len(v.l)
      [] v.t = "dict" -> Cardinality(DOMAIN v.d)

\* Python truthiness: bool(v)
Truthy(v) ==
    CASE v.t = "none" -> FALSE
      [] v.t = "bool" -> v.b
      [] v.t = "num" -> v.n # 0
      [] OTHER -> PyLen(v) > 0

Whitespace == {" "}

RECURSIVE LStrip(_)
LStrip(chars) ==
    IF chars # <<>> /\ Head(chars) \in Whitespace THEN LStrip(Tail(chars)) ELSE chars

RECURSIVE RStrip(_)
RStrip(chars) ==
    IF chars # <<>> /\ chars[Len(chars)] \in Whitespace
    THEN RStrip(SubSeq(chars, 1, Len(chars) - 1))
    ELSE chars

\* str.strip()
Strip(chars) == RStrip(LStrip(chars))

Digits == {"0", "1", "2", "3", "4", "5", "6", "7", "8", "9"}

DigitValue(c) ==
    CASE c = "0" -> 0 [] c = "1" -> 1 [] c = "2" -> 2 [] c = "3" -> 3
      [] c = "4" -> 4 [] c = "5" -> 5 [] c = "6" -> 6 [] c = "7" -> 7
      [] c = "8" -> 8 [] c = "9" -> 9

RECURSIVE DigitsValue(_)
DigitsValue(chars) ==
    IF chars = <<>> THEN 0
    ELSE 10 * DigitsValue(SubSeq(chars, 1, Len(chars) - 1)) + DigitValue(chars[Len(chars)])

\* float(v): [ok |-> TRUE, n |-> number] or [ok |-> FALSE] when float() raises
\* ValueError or TypeError.  Numeric strings are whole numbers in this model.
PyFloat(v) ==
    CASE v.t = "num" -> [ok |-> TRUE, n |-> v.n]
      [] v.t = "bool" -> [ok |-> TRUE, n |-> IF v.b THEN 1 ELSE 0]
      [] v.t = "str" ->
            LET body == Strip(v.s)
            IN  IF body # <<>> /\ \A i \in DOMAIN body : body[i] \in Digits
                THEN [ok |-> TRUE, n |-> DigitsValue(body)]
                ELSE [ok |-> FALSE]
      [] OTHER -> [ok |-> FALSE]

----------------------------------------------------------------------------
(* InsuranceSubmissionAnalyzer: path resolution *)

\* the negative-index slip: a list index is checked against the length only
RECURSIVE GetValueFromPathNegIndex(_, _)
GetValueFromPathNegIndex(data, path_list) ==
    IF path_list = <<>> THEN data
    ELSE LET key == Head(path_list)
         IN  IF IsDict(data) /\ key.k = "key" /\ key.s \in DOMAIN data.d
             THEN GetValueFromPathNegIndex(data.d[key.s], Tail(path_list))
             ELSE IF IsList(data) /\ key.k = "idx" /\ key.i < Len(data.l)
                     /\ key.i >= 0 - Len(data.l)
             THEN GetValueFromPathNegIndex(
                      data.l[IF key.i >= 0 THEN key.i + 1 ELSE Len(data.l) + key.i + 1],
                      Tail(path_list))
             ELSE None

\* get_value_from_path(data, path_list): the value at the path, or None
RECURSIVE GetValueFromPath(_, _)
GetValueFromPath(data, path_list) ==
    IF path_list = <<>> THEN data
    ELSE LET key == Head(path_list)
         IN  IF IsDict(data) /\ key.k = "key" /\ key.s \in DOMAIN data.d
             THEN GetValueFromPath(data.d[key.s], Tail(path_list))
             ELSE IF IsList(data) /\ key.k = "idx" /\ 0 <= key.i /\ key.i < Len(data.l)
             THEN GetValueFromPath(data.l[key.i + 1], Tail(path_list))
             ELSE None

----------------------------------------------------------------------------
(* Text used in documents and configurations *)

Acme == <<"A", "c", "m", "e">>

Blank == <<" ", " ">>

Url == <<"a", ".", "i", "o">>

LLC == <<"L", "L", "C">>

NaicsCode == <<"5", "4", "1">>

ScoreText95 == <<"9", "5">>

ScoreTextPadded85 == <<" ", "8", "5">>

ScoreTextNA == <<"n", "/", "a">>

----------------------------------------------------------------------------
(* InsuranceSubmissionAnalyzer: configuration *)

\* The modelled elements: five of the twenty-seven mapped by set_default_config,
\* one of each path shape ("value"-suffixed, list index, plain node, limit
\* mapping), with the paths set_default_config gives them.
DefaultFieldMapping ==
    [e \in {"company_name", "website", "primary_naics_code", "legal_entity_type",
            "100_pct_limit"} |->
        CASE e = "company_name" ->
                <<K("submission_data"), K("Common"), K("Firmographics"),
                  K("company_name"), K("value")>>
          [] e = "website" ->
                <<K("submission_data"), K("Common"), K("Firmographics"),
                  K("website"), K("value")>>
          [] e = "primary_naics_code" ->
                <<K("submission_data"), K("Common"), K("Firmographics"),
                  K("primary_naics_2017"), I(0), K("code")>>
          [] e = "legal_entity_type" ->
                <<K("submission_data"), K("Common"), K("Legal_Entity_Type")>>
          [] e = "100_pct_limit" ->
                <<K("submission_data"), K("Common"), K("Limits and Coverages"),
                  K("100_pct_limit")>>]

\* set_default_config(): the default lists, restricted to the modelled elements
\* and in their declaration order
DefaultConfig ==
    [high_quality_threshold |-> 90,
     good_quality_threshold |-> 80,
     triage_elements |-> <<"company_name", "website", "primary_naics_code",
                           "legal_entity_type", "100_pct_limit">>,
     appetite_elements |-> <<"company_name">>,
     clearance_elements |-> <<"company_name", "primary_naics_code">>,
     field_mapping |-> DefaultFieldMapping]

\* the replace slip: a supplied field_mapping takes the place of the whole mapping
UpdateConfigReplaceMapping(cfg, config) ==
    LET has(k) == k \in DOMAIN config
        hi == IF has("high_quality_threshold")
              THEN PyFloat(config["high_quality_threshold"])
              ELSE [ok |-> TRUE, n |-> cfg.high_quality_threshold]
        gd == IF has("good_quality_threshold")
              THEN PyFloat(config["good_quality_threshold"])
              ELSE [ok |-> TRUE, n |-> cfg.good_quality_threshold]
    IN  IF ~hi.ok \/ ~gd.ok THEN [ok |-> FALSE, cfg |-> cfg]
        ELSE [ok |-> TRUE,
              cfg |-> [high_quality_threshold |-> hi.n,
                       good_quality_threshold |-> gd.n,
                       triage_elements |->
                           IF has("triage_elements") THEN config["triage_elements"]
                           ELSE cfg.triage_elements,
                       appetite_elements |->
                           IF has("appetite_elements") THEN config["appetite_elements"]
                           ELSE cfg.appetite_elements,
                       clearance_elements |->
                           IF has("clearance_elements") THEN config["clearance_elements"]
                           ELSE cfg.clearance_elements,
                       field_mapping |->
                           IF has("field_mapping") THEN config["field_mapping"]
                           ELSE cfg.field_mapping]]

\* update_config(config): config maps a subset of the six configuration keys;
\* the thresholds go through float().  [ok |-> FALSE] when float() raises.
UpdateConfig(cfg, config) ==
    LET has(k) == k \in DOMAIN config
        hi == IF has("high_quality_threshold")
              THEN PyFloat(config["high_quality_threshold"])
              ELSE [ok |-> TRUE, n |-> cfg.high_quality_threshold]
        gd == IF has("good_quality_threshold")
              THEN PyFloat(config["good_quality_threshold"])
              ELSE [ok |-> TRUE, n |-> cfg.good_quality_threshold]
        fm == IF has("field_mapping")
              THEN [f \in DOMAIN cfg.field_mapping \cup DOMAIN config["field_mapping"] |->
                       IF f \in DOMAIN config["field_mapping"]
                       THEN config["field_mapping"][f]
                       ELSE cfg.field_mapping[f]]
              ELSE cfg.field_mapping
    IN  IF ~hi.ok THEN [ok |-> FALSE, cfg |-> cfg]
        ELSE IF ~gd.ok
        THEN [ok |-> FALSE, cfg |-> [cfg EXCEPT !.high_quality_threshold = hi.n]]
        ELSE [ok |-> TRUE,
              cfg |-> [high_quality_threshold |-> hi.n,
                       good_quality_threshold |-> gd.n,
                       triage_elements |->
                           IF has("triage_elements") THEN config["triage_elements"]
                           ELSE cfg.triage_elements,
                       appetite_elements |->
                           IF has("appetite_elements") THEN config["appetite_elements"]
                           ELSE cfg.appetite_elements,
                       clearance_elements |->
                           IF has("clearance_elements") THEN config["clearance_elements"]
                           ELSE cfg.clearance_elements,
                       field_mapping |-> fm]]

\* the analyzer object's configuration, as a record
SelfConfig ==
    [high_quality_threshold |-> high_quality_threshold,
     good_quality_threshold |-> good_quality_threshold,
     triage_elements |-> triage_elements,
     appetite_elements |-> appetite_elements,
     clearance_elements |-> clearance_elements,
     field_mapping |-> field_mapping]

----------------------------------------------------------------------------
(* InsuranceSubmissionAnalyzer: presence and score of one element *)

\* the truthiness slip: `if not value: return False`, which drops 0 and False
IsElementPresentFalsy(fm, data, element) ==
    IF element \notin DOMAIN fm \/ fm[element] = <<>> THEN FALSE
    ELSE Truthy(GetValueFromPath(data, fm[element]))

\* is_element_present(data, element)
IsElementPresent(fm, data, element) ==
    IF element \notin DOMAIN fm \/ fm[element] = <<>> THEN FALSE
    ELSE LET value == GetValueFromPath(data, fm[element])
         IN  IF element = "100_pct_limit" /\ IsDict(value) /\ PyLen(value) > 0 THEN TRUE
             ELSE IF value = None THEN FALSE
             ELSE IF IsStr(value) /\ Strip(value.s) = <<>> THEN FALSE
             ELSE IF IsList(value) /\ PyLen(value) = 0 THEN FALSE
             ELSE IF IsDict(value) /\ PyLen(value) = 0 THEN FALSE
             ELSE TRUE

\* the path with its last segment replaced by "score"
ScorePath(path_list) == [path_list EXCEPT ![Len(path_list)] = K("score")]

\* get_accuracy_score(data, element): the score returned (None or a number), and
\* self.field_mapping as the call leaves it (the score path is built on a copy)
GetAccuracyScoreCall(fm, data, element) ==
    IF element \notin DOMAIN fm \/ fm[element] = <<>>
       \/ fm[element][Len(fm[element])] # K("value")
    THEN [score |-> None, field_mapping |-> fm]
    ELSE LET score_str == GetValueFromPath(data, ScorePath(fm[element]))
             parsed == PyFloat(score_str)
         IN  [score |-> IF Truthy(score_str) /\ parsed.ok THEN Num(parsed.n) ELSE None,
              field_mapping |-> fm]

GetAccuracyScore(fm, data, element) == GetAccuracyScoreCall(fm, data, element).score

\* get_quality_indicator(score) for a score that is not None
GetQualityIndicator(cfg, score) ==
    IF score.n >= cfg.high_quality_threshold THEN "high"
    ELSE IF score.n >= cfg.good_quality_threshold THEN "medium"
    ELSE "low"


----------------------------------------------------------------------------
(* Arithmetic on exact ratios [num, den] *)

\* a / b rounded to the nearest integer (no model input lands on a tie)
RoundDiv(a, b) == (2 * a + b) \div (2 * b)

\* round(r, 2), in hundredths
Round2(r) == RoundDiv(r.num * 100, r.den)

\* round(r, 1), in tenths
Round1(r) == RoundDiv(r.num * 10, r.den)

\* r >= n for a ratio r with a positive denominator
RatioGeq(r, n) == r.num >= n * r.den

\* the sum of f over the elements of S
RECURSIVE SumOver(_, _)
SumOver(S, f) ==
    IF S = {} THEN 0
    ELSE LET x == CHOOSE y \in S : TRUE IN f[x] + SumOver(S \ {x}, f)

\* the elements of a list, as a set
Range(seq) == {seq[i] : i \in DOMAIN seq}

\* the first n entries of a list: seq[:n]
Take(seq, n) == SubSeq(seq, 1, IF Len(seq) < n THEN Len(seq) ELSE n)

----------------------------------------------------------------------------
(* InsuranceSubmissionAnalyzer.analyze_submission *)

\* (len(present) / len(required)) * 100 if required else 100
PercentOf(present, required) ==
    IF required # 0 THEN [num |-> present * 100, den |-> required]
    ELSE [num |-> 100, den |-> 1]

\* the unique-field slip: the aggregate counts each field once
AggregateCountUnique(cfg, present_of) ==
    LET all == Range(cfg.triage_elements) \cup Range(cfg.appetite_elements)
                   \cup Range(cfg.clearance_elements)
    IN  [present |-> Cardinality({e \in all :
                        \/ e \in Range(present_of.triage)
                        \/ e \in Range(present_of.appetite)
                        \/ e \in Range(present_of.clearance)}),
         total |-> Cardinality(all)]

\* total_present and total_required: the three categories' counts added up
AggregateCount(cfg, present_of) ==
    [present |-> Len(present_of.triage) + Len(present_of.appetite)
                     + Len(present_of.clearance),
     total |-> Len(cfg.triage_elements) + Len(cfg.appetite_elements)
                   + Len(cfg.clearance_elements)]

\* the score-only slip: the tier decided by the average score alone
QualityTierScoreOnly(cfg, avg_accuracy, overall_percent) ==
    IF RatioGeq(avg_accuracy, cfg.high_quality_threshold) THEN "High Quality"
    ELSE IF RatioGeq(avg_accuracy, cfg.good_quality_threshold) THEN "Good Quality"
    ELSE "Needs Improvement"

\* the overall quality tier
QualityTier(cfg, avg_accuracy, overall_percent) ==
    IF RatioGeq(avg_accuracy, cfg.high_quality_threshold) /\ RatioGeq(overall_percent, 90)
    THEN "High Quality"
    ELSE IF RatioGeq(avg_accuracy, cfg.good_quality_threshold)
            /\ RatioGeq(overall_percent, 70)
    THEN "Good Quality"
    ELSE "Needs Improvement"

\* _get_risk_assessment_readiness(overall_percent, avg_accuracy)
GetRiskAssessmentReadiness(cfg, overall_percent, avg_accuracy) ==
    IF RatioGeq(overall_percent, 90) /\ RatioGeq(avg_accuracy, cfg.high_quality_threshold)
    THEN "ready"
    ELSE IF RatioGeq(overall_percent, 80)
            /\ RatioGeq(avg_accuracy, cfg.good_quality_threshold)
    THEN "preliminary"
    ELSE IF RatioGeq(overall_percent, 70) THEN "needs_information"
    ELSE "significant_gaps"

\* the priority slip: triage is listed before appetite
GetNextStepsTriageFirst(triage_missing, appetite_missing, clearance_missing) ==
    LET s1 == IF triage_missing # <<>>
              THEN <<[step |-> "triage", elements |-> triage_missing]>> ELSE <<>>
        s2 == IF appetite_missing # <<>>
              THEN <<[step |-> "appetite", elements |-> appetite_missing]>> ELSE <<>>
        s3 == IF clearance_missing # <<>>
              THEN <<[step |-> "clearance", elements |-> clearance_missing]>> ELSE <<>>
        s4 == IF appetite_missing = <<>> /\ triage_missing = <<>> /\ clearance_missing = <<>>
              THEN <<[step |-> "proceed", elements |-> <<>>]>> ELSE <<>>
    IN  Take(s1 \o s2 \o s3 \o s4, 3)

\* _get_next_steps(triage_missing, appetite_missing, clearance_missing): each
\* message is held as its kind and the elements it lists
GetNextSteps(triage_missing, appetite_missing, clearance_missing) ==
    LET s1 == IF appetite_missing # <<>>
              THEN <<[step |-> "appetite", elements |-> appetite_missing]>> ELSE <<>>
        s2 == IF triage_missing # <<>>
              THEN <<[step |-> "triage", elements |-> triage_missing]>> ELSE <<>>
        s3 == IF clearance_missing # <<>>
              THEN <<[step |-> "clearance", elements |-> clearance_missing]>> ELSE <<>>
        s4 == IF appetite_missing = <<>> /\ triage_missing = <<>> /\ clearance_missing = <<>>
              THEN <<[step |-> "proceed", elements |-> <<>>]>> ELSE <<>>
    IN  Take(s1 \o s2 \o s3 \o s4, 3)

\* the elements of field_level_accuracy: present, and with a score
ScoredElements(cfg, data) ==
    {e \in Range(cfg.triage_elements) \cup Range(cfg.appetite_elements)
               \cup Range(cfg.clearance_elements) :
        /\ IsElementPresent(cfg.field_mapping, data, e)
        /\ GetAccuracyScore(cfg.field_mapping, data, e) # None}

\* avg_accuracy: the mean score of field_level_accuracy, 0 when it is empty
AverageAccuracy(cfg, data) ==
    LET scored == ScoredElements(cfg, data)
        score == [e \in scored |-> GetAccuracyScore(cfg.field_mapping, data, e).n]
    IN  IF scored # {} THEN [num |-> SumOver(scored, score), den |-> Cardinality(scored)]
        ELSE [num |-> 0, den |-> 1]

\* analyze_submission(submission_data) under configuration cfg
AnalyzeSubmission(cfg, data) ==
    LET present(e) == IsElementPresent(cfg.field_mapping, data, e)
        present_of == [triage |-> SelectSeq(cfg.triage_elements, present),
                       appetite |-> SelectSeq(cfg.appetite_elements, present),
                       clearance |-> SelectSeq(cfg.clearance_elements, present)]
        triage_percent == PercentOf(Len(present_of.triage), Len(cfg.triage_elements))
        appetite_percent == PercentOf(Len(present_of.appetite), Len(cfg.appetite_elements))
        clearance_percent ==
            PercentOf(Len(present_of.clearance), Len(cfg.clearance_elements))
        aggregate == AggregateCount(cfg, present_of)
        overall_percent == PercentOf(aggregate.present, aggregate.total)
        triage_missing ==
            SelectSeq(cfg.triage_elements, LAMBDA e : e \notin Range(present_of.triage))
        appetite_missing ==
            SelectSeq(cfg.appetite_elements, LAMBDA e : e \notin Range(present_of.appetite))
        clearance_missing ==
            SelectSeq(cfg.clearance_elements,
                      LAMBDA e : e \notin Range(present_of.clearance))
        scored == ScoredElements(cfg, data)
        avg_accuracy == AverageAccuracy(cfg, data)
    IN  [overall_completeness |->
            [aggregate |-> [percentage |-> Round2(overall_percent),
                            present |-> aggregate.present,
                            total |-> aggregate.total],
             triage |-> [percentage |-> Round2(triage_percent),
                         present |-> Len(present_of.triage),
                         total |-> Len(cfg.triage_elements)],
             appetite |-> [percentage |-> Round2(appetite_percent),
                           present |-> Len(present_of.appetite),
                           total |-> Len(cfg.appetite_elements)],
             clearance |-> [percentage |-> Round2(clearance_percent),
                            present |-> Len(present_of.clearance),
                            total |-> Len(cfg.clearance_elements)]],
         data_quality_tier |->
            [tier |-> QualityTier(cfg, avg_accuracy, overall_percent),
             average_score |-> Round2(avg_accuracy)],
         field_level_accuracy |->
            [e \in scored |->
                LET sc == GetAccuracyScore(cfg.field_mapping, data, e)
                IN  [value |-> GetValueFromPath(data, cfg.field_mapping[e]),
                     score |-> sc.n,
                     indicator |-> GetQualityIndicator(cfg, sc)]],
         missing_required_elements |->
            [appetite |-> appetite_missing,
             triage |-> triage_missing,
             clearance |-> clearance_missing],
         risk_assessment_readiness |->
            GetRiskAssessmentReadiness(cfg, overall_percent, avg_accuracy),
         next_steps |-> GetNextSteps(triage_missing, appetite_missing, clearance_missing)]

\* InsuranceSubmissionAnalyzer(user_config): the defaults, then update_config
\* when the configuration is not empty
NewAnalyzer(user_config) ==
    IF DOMAIN user_config # {} THEN UpdateConfig(DefaultConfig, user_config)
    ELSE [ok |-> TRUE, cfg |-> DefaultConfig]

\* run_sync once the analyzer is built: an exception raised while building it is
\* turned into an error result, otherwise the analysis is returned
RunSyncWith(built, submission_data) ==
    IF ~built.ok
    THEN [result |-> [status |-> "error", data |-> None,
                      message |-> "error_during_analysis"],
          cfg |-> built.cfg]
    ELSE [result |-> [status |-> "success",
                      data |-> AnalyzeSubmission(built.cfg, submission_data),
                      message |-> None],
          cfg |-> built.cfg]

\* InsuranceSubmissionAnalyzerTool.run_sync(input_data): the result, and the
\* configuration of the analyzer the call built (the defaults when it built none)
AnalyzerToolRunSync(submission_data, user_config) ==
    IF ~Truthy(submission_data)
    THEN [result |-> [status |-> "error", data |-> None, message |-> "no_submission_data"],
          cfg |-> DefaultConfig]
    ELSE RunSyncWith(NewAnalyzer(user_config), submission_data)

----------------------------------------------------------------------------
(* str() and repr() of a JSON value, as text *)

DigitChar(d) ==
    CASE d = 0 -> "0" [] d = 1 -> "1" [] d = 2 -> "2" [] d = 3 -> "3" [] d = 4 -> "4"
      [] d = 5 -> "5" [] d = 6 -> "6" [] d = 7 -> "7" [] d = 8 -> "8" [] d = 9 -> "9"

\* str(n) of a whole number n >= 0
RECURSIVE NumText(_)
NumText(n) ==
    IF n < 10 THEN <<DigitChar(n)>> ELSE NumText(n \div 10) \o <<DigitChar(n % 10)>>

\* str(v) and repr(v); a mapping's key is written as one piece of text, and the
\* keys of a mapping come in an arbitrary fixed order
RECURSIVE PyStr(_), PyRepr(_), JoinRepr(_), JoinItems(_, _)
PyStr(v) ==
    CASE v.t = "str" -> v.s
      [] v.t = "num" -> NumText(v.n)
      [] v.t = "bool" -> IF v.b THEN <<"T", "r", "u", "e">> ELSE <<"F", "a", "l", "s", "e">>
      [] v.t = "none" -> <<"N", "o", "n", "e">>
      [] v.t = "list" -> <<"[">> \o JoinRepr(v.l) \o <<"]">>
      [] v.t = "dict" -> <<"{">> \o JoinItems(v.d, DOMAIN v.d) \o <<"}">>

PyRepr(v) == IF v.t = "str" THEN <<"'">> \o v.s \o <<"'">> ELSE PyStr(v)

JoinRepr(items) ==
    IF items = <<>> THEN <<>>
    ELSE IF Len(items) = 1 THEN PyRepr(items[1])
    ELSE PyRepr(items[1]) \o <<",", " ">> \o JoinRepr(Tail(items))

JoinItems(f, keys) ==
    IF keys = {} THEN <<>>
    ELSE LET k == CHOOSE x \in keys : TRUE
             item == <<"'", k, "'", ":", " ">> \o PyRepr(f[k])
         IN  IF keys = {k} THEN item
             ELSE item \o <<",", " ">> \o JoinItems(f, keys \ {k})

PresentText == <<"P", "r", "e", "s", "e", "n", "t">>

----------------------------------------------------------------------------
(* SubmissionCompletenessChecker: class-level tables *)

\* _required_elements, in declaration order, restricted to the modelled fields
ChkRequiredElements ==
    <<[field_name |-> "company_name", categories |-> <<"T", "A", "C">>],
      [field_name |-> "website", categories |-> <<"Required">>],
      [field_name |-> "primary_naics_2017", categories |-> <<"T", "C">>],
      [field_name |-> "naics_desc", categories |-> <<"T", "C">>],
      [field_name |-> "legal_entity_type", categories |-> <<"T">>]>>

\* _field_mappings of the modelled fields; a dotted path is held as its keys
ChkFieldMappings ==
    [f \in {"company_name", "website", "primary_naics_2017", "naics_desc",
            "legal_entity_type"} |->
        CASE f = "company_name" -> << <<"Common", "Firmographics", "company_name">> >>
          [] f = "website" -> << <<"Common", "Firmographics", "website">> >>
          [] f = "primary_naics_2017" ->
                << <<"Common", "Firmographics", "primary_naics_2017">> >>
          [] f = "naics_desc" -> << <<"Common", "Firmographics", "primary_naics_2017">> >>
          [] f = "legal_entity_type" -> << <<"Common", "Legal_Entity_Type">> >>]

\* the entries of _required_elements for the policy fields
ChkPolicyElements ==
    <<[field_name |-> "policy_inception_date", categories |-> <<"T", "A", "C">>],
      [field_name |-> "coverages", categories |-> <<"T", "A">>]>>

\* _field_mappings of the modelled fields and the policy fields
ChkPolicyMappings ==
    [f \in DOMAIN ChkFieldMappings \cup {"policy_inception_date", "coverages"} |->
        CASE f = "policy_inception_date" ->
                << <<"Common", "Product_Details", "policy_inception_date">> >>
          [] f = "coverages" ->
                << <<"Common", "Limits_and_Coverages", "normalized_coverage">> >>
          [] OTHER -> ChkFieldMappings[f]]

\* _quality_thresholds["high"]
ChkHighThreshold == 90

\* _quality_thresholds["good"]
ChkGoodThreshold == 80

\* critical_fields of _assess_risk_readiness
ChkCriticalFields ==
    {"company_name", "primary_naics_2017", "policy_inception_date", "coverages"}

----------------------------------------------------------------------------
(* SubmissionCompletenessChecker: extraction *)

\* the (None, None) a lookup returns when it finds nothing
NotFound == [value |-> None, score |-> None]

EmptyText == Str(<<>>)

\* what _get_nested_value returns for the node the path leads to
NestedResult(current) ==
    IF IsDict(current)
    THEN IF "value" \in DOMAIN current.d
         THEN LET value == current.d["value"]
                  score == IF "score" \in DOMAIN current.d THEN current.d["score"]
                           ELSE EmptyText
              IN  IF IsList(value) /\ PyLen(value) > 0
                  THEN IF IsDict(value.l[1]) /\ "naics_desc" \in DOMAIN value.l[1].d
                       THEN [value |-> value.l[1].d["naics_desc"], score |-> score]
                       ELSE IF IsDict(value.l[1]) /\ "sic_desc" \in DOMAIN value.l[1].d
                       THEN [value |-> value.l[1].d["sic_desc"], score |-> score]
                       ELSE [value |-> Str(PyStr(value)), score |-> score]
                  ELSE IF Truthy(value) THEN [value |-> value, score |-> score]
                  ELSE NotFound
         ELSE IF \E k \in DOMAIN current.d :
                     /\ IsDict(current.d[k])
                     /\ "value" \in DOMAIN current.d[k].d
                     /\ Truthy(current.d[k].d["value"])
              THEN [value |-> Str(PresentText), score |-> EmptyText]
              ELSE NotFound
    ELSE IF IsList(current) /\ PyLen(current) > 0
    THEN [value |-> Str(PyStr(current)), score |-> EmptyText]
    ELSE IF Truthy(current) THEN [value |-> Str(PyStr(current)), score |-> EmptyText]
    ELSE NotFound

\* _get_nested_value(data, path): (value, score), or (None, None)
RECURSIVE GetNestedValue(_, _)
GetNestedValue(data, keys) ==
    IF keys = <<>> THEN NestedResult(data)
    ELSE IF IsDict(data) /\ Head(keys) \in DOMAIN data.d
    THEN GetNestedValue(data.d[Head(keys)], Tail(keys))
    ELSE NotFound

\* the last-hit slip: every path is tried and the last one that resolves wins
RECURSIVE LastResolving(_, _)
LastResolving(data, paths) ==
    IF paths = <<>> THEN NotFound
    ELSE LET found == GetNestedValue(data, paths[Len(paths)])
         IN  IF found.value # None THEN found
             ELSE LastResolving(data, SubSeq(paths, 1, Len(paths) - 1))

\* the loop of _extract_field_value: the first path whose value is not None
RECURSIVE FirstResolving(_, _)
FirstResolving(data, paths) ==
    IF paths = <<>> THEN NotFound
    ELSE LET found == GetNestedValue(data, Head(paths))
         IN  IF found.value # None THEN found ELSE FirstResolving(data, Tail(paths))

\* _extract_field_value(submission_data, field_name)
ExtractFieldValue(mappings, data, field_name) ==
    IF field_name \notin DOMAIN mappings THEN NotFound
    ELSE FirstResolving(data, mappings[field_name])

----------------------------------------------------------------------------
(* SubmissionCompletenessChecker: user modifications *)

\* _set_nested_value(data, path, value): [ok |-> FALSE] when a node on the way
\* is not a mapping (the item assignment raises TypeError)
RECURSIVE SetNestedValue(_, _, _)
SetNestedValue(data, keys, value) ==
    IF ~IsDict(data) THEN [ok |-> FALSE, data |-> data]
    ELSE LET key == Head(keys)
             with(child) == Dict([k \in DOMAIN data.d \cup {key} |->
                                     IF k = key THEN child ELSE data.d[k]])
         IN  IF Len(keys) = 1 THEN [ok |-> TRUE, data |-> with(value)]
             ELSE LET below ==
                          SetNestedValue(IF key \in DOMAIN data.d THEN data.d[key]
                                         ELSE Dict(<<>>),
                                         Tail(keys), value)
                  IN  IF below.ok THEN [ok |-> TRUE, data |-> with(below.data)]
                      ELSE [ok |-> FALSE, data |-> data]

\* the node written for a user-supplied value
UserNode(new_value) == Dict([k \in {"value", "score"} |->
                               IF k = "value" THEN new_value ELSE None])

RECURSIVE SetOnPaths(_, _, _)
SetOnPaths(data, paths, new_value) ==
    IF paths = <<>> THEN [ok |-> TRUE, data |-> data]
    ELSE LET first == SetNestedValue(data, Head(paths), UserNode(new_value))
         IN  IF first.ok THEN SetOnPaths(first.data, Tail(paths), new_value) ELSE first

\* user_modifications is None or an ordered mapping: [given |-> FALSE] for
\* None, else the list of its [field_name, value] entries (distinct field names)
NoMods == [given |-> FALSE, entries |-> <<>>]

Mods(entries) == [given |-> TRUE, entries |-> entries]

ModFields(modifications) == {modifications[i].field_name : i \in DOMAIN modifications}

ModValue(modifications, field_name) ==
    modifications[CHOOSE i \in DOMAIN modifications :
                      modifications[i].field_name = field_name].value

\* _apply_user_modifications(submission_data, modifications): the copy with
\* every mapped field's paths overwritten, or [ok |-> FALSE] when a write raises
RECURSIVE ApplyUserModifications(_, _, _)
ApplyUserModifications(mappings, data, modifications) ==
    IF modifications = <<>> THEN [ok |-> TRUE, data |-> data]
    ELSE LET m == Head(modifications)
             done == IF m.field_name \in DOMAIN mappings
                     THEN SetOnPaths(data, mappings[m.field_name], m.value)
                     ELSE [ok |-> TRUE, data |-> data]
         IN  IF done.ok
             THEN ApplyUserModifications(mappings, done.data, Tail(modifications))
             ELSE done

\* the in-place slip: the writes land in the caller's document
ApplyUserModificationsInPlace(mappings, data, modifications) ==
    LET applied == ApplyUserModifications(mappings, data, modifications)
    IN  [ok |-> applied.ok, data |-> applied.data, submission_data |-> applied.data]

\* the call _apply_user_modifications(submission_data, modifications): what it
\* returns, and the caller's submission_data as the call leaves it (the writes
\* go to a copy.deepcopy of it)
ApplyUserModificationsCall(mappings, data, modifications) ==
    LET applied == ApplyUserModifications(mappings, data, modifications)
    IN  [ok |-> applied.ok, data |-> applied.data, submission_data |-> data]

----------------------------------------------------------------------------
(* SubmissionCompletenessChecker: analysis *)

\* the branch of _analyze_fields for a field the user did not modify
OriginalField(entry, found) ==
    IF ~Truthy(found.value)
    THEN [ok |-> TRUE,
          field |-> [field_name |-> entry.field_name, categories |-> entry.categories,
                     status |-> "missing", confidence_score |-> 0, value |-> <<>>,
                     source |-> "original"]]
    ELSE LET conf == IF Truthy(found.score) THEN PyFloat(found.score)
                     ELSE [ok |-> TRUE, n |-> 0]
         IN  IF ~conf.ok THEN [ok |-> FALSE]
             ELSE [ok |-> TRUE,
                   field |-> [field_name |-> entry.field_name,
                              categories |-> entry.categories,
                              status |-> "complete", confidence_score |-> conf.n,
                              value |-> PyStr(found.value), source |-> "original"]]

\* the override slip: a modified field is read back from the rewritten document
\* like any other field
AnalyzeOneFieldNoOverride(mappings, data, modifications, entry) ==
    OriginalField(entry, ExtractFieldValue(mappings, data, entry.field_name))

\* one iteration of the loop of _analyze_fields; [ok |-> FALSE] when float(score)
\* raises
AnalyzeOneField(mappings, data, modifications, entry) ==
    IF entry.field_name \in ModFields(modifications)
    THEN [ok |-> TRUE,
          field |-> [field_name |-> entry.field_name, categories |-> entry.categories,
                     status |-> "complete", confidence_score |-> 100,
                     value |-> PyStr(ModValue(modifications, entry.field_name)),
                     source |-> "user_modified"]]
    ELSE OriginalField(entry, ExtractFieldValue(mappings, data, entry.field_name))

\* _analyze_fields(submission_data, user_modifications)
RECURSIVE AnalyzeFields(_, _, _, _)
AnalyzeFields(required, mappings, data, modifications) ==
    IF required = <<>> THEN [ok |-> TRUE, fields |-> <<>>]
    ELSE LET one == AnalyzeOneField(mappings, data, modifications, Head(required))
             rest == AnalyzeFields(Tail(required), mappings, data, modifications)
         IN  IF one.ok /\ rest.ok
             THEN [ok |-> TRUE, fields |-> <<one.field>> \o rest.fields]
             ELSE [ok |-> FALSE, fields |-> <<>>]

\* the fields _calculate_completeness puts in a category: once for the category
\* tag, and once more for "Required"
RECURSIVE CategoryFields(_, _)
CategoryFields(field_analysis, tag) ==
    IF field_analysis = <<>> THEN <<>>
    ELSE LET f == Head(field_analysis)
         IN  (IF tag \in Range(f.categories) THEN <<f>> ELSE <<>>)
             \o (IF "Required" \in Range(f.categories) THEN <<f>> ELSE <<>>)
             \o CategoryFields(Tail(field_analysis), tag)

FieldNames(fields) == [i \in DOMAIN fields |-> fields[i].field_name]

\* the wrong-total slip: the percentage taken over the complete fields plus one
CategoryCompletenessOffByOne(fields) ==
    LET complete == SelectSeq(fields, LAMBDA f : f.status = "complete")
    IN  [percentage |-> IF Len(fields) > 0
                        THEN Round1([num |-> Len(complete) * 100, den |-> Len(fields) + 1])
                        ELSE 0,
         complete_count |-> Len(complete),
         total_required |-> Len(fields),
         missing_elements |->
             FieldNames(SelectSeq(fields, LAMBDA f : f.status # "complete"))]

\* calculate_category_completeness(fields); the percentage is in tenths
CategoryCompleteness(fields) ==
    LET complete == SelectSeq(fields, LAMBDA f : f.status = "complete")
    IN  [percentage |-> IF Len(fields) > 0
                        THEN Round1([num |-> Len(complete) * 100, den |-> Len(fields)])
                        ELSE 0,
         complete_count |-> Len(complete),
         total_required |-> Len(fields),
         missing_elements |->
             FieldNames(SelectSeq(fields, LAMBDA f : f.status # "complete"))]

\* _calculate_completeness(field_analysis)
CalculateCompleteness(field_analysis) ==
    [triage |-> CategoryCompleteness(CategoryFields(field_analysis, "T")),
     appetite |-> CategoryCompleteness(CategoryFields(field_analysis, "A")),
     clearance |-> CategoryCompleteness(CategoryFields(field_analysis, "C"))]

\* _assess_quality_tiers(field_analysis)
AssessQualityTiers(field_analysis) ==
    LET orig(f) == f.source # "user_modified" /\ f.status # "missing"
    IN  [high_quality |->
            FieldNames(SelectSeq(field_analysis,
                LAMBDA f : orig(f) /\ f.confidence_score > ChkHighThreshold)),
         good_quality |->
            FieldNames(SelectSeq(field_analysis,
                LAMBDA f : /\ orig(f)
                           /\ f.confidence_score <= ChkHighThreshold
                           /\ f.confidence_score >= ChkGoodThreshold)),
         needs_improvement |->
            FieldNames(SelectSeq(field_analysis,
                LAMBDA f : orig(f) /\ f.confidence_score < ChkGoodThreshold)),
         missing_required |->
            FieldNames(SelectSeq(field_analysis,
                LAMBDA f : f.source # "user_modified" /\ f.status = "missing")),
         user_modified |->
            FieldNames(SelectSeq(field_analysis, LAMBDA f : f.source = "user_modified"))]

\* _assess_risk_readiness(field_analysis, completeness)
AssessRiskReadiness(field_analysis, completeness) ==
    LET critical_missing ==
            FieldNames(SelectSeq(field_analysis,
                LAMBDA f : f.field_name \in ChkCriticalFields /\ f.status # "complete"))
        triage_pct == completeness.triage.percentage
    IN  [status |-> IF triage_pct >= 900 /\ Len(critical_missing) = 0 THEN "ready"
                    ELSE IF triage_pct >= 700 /\ Len(critical_missing) <= 1
                    THEN "mostly_ready"
                    ELSE "not_ready",
         critical_missing_items |-> critical_missing,
         underwriting_readiness |->
             IF triage_pct >= 900 /\ Len(critical_missing) = 0 THEN "High"
             ELSE IF triage_pct >= 700 /\ Len(critical_missing) <= 1 THEN "Medium"
             ELSE "Low"]

\* _generate_next_steps(field_analysis, completeness, risk_assessment); each
\* action is held as its kind and the fields it lists
GenerateNextSteps(field_analysis, completeness, risk_assessment) ==
    LET missing_critical == risk_assessment.critical_missing_items
        low_quality_fields ==
            FieldNames(SelectSeq(field_analysis,
                LAMBDA f : /\ f.status = "complete"
                           /\ f.confidence_score < ChkGoodThreshold
                           /\ f.source = "original"))
        triage_pct == completeness.triage.percentage
        a1 == IF missing_critical # <<>>
              THEN <<[action |-> "obtain_critical", fields |-> Take(missing_critical, 3)]>>
              ELSE <<>>
        a2 == IF low_quality_fields # <<>>
              THEN <<[action |-> "verify_low_confidence",
                      fields |-> Take(low_quality_fields, 2)]>>
              ELSE <<>>
        a3 == IF triage_pct < 900
              THEN <<[action |-> "complete_triage", fields |-> <<>>]>> ELSE <<>>
    IN  [priority_actions |-> Take(a1 \o a2 \o a3, 3),
         recommendation |->
             IF triage_pct >= 900 /\ Len(missing_critical) = 0 THEN "ready_for_review"
             ELSE IF triage_pct >= 700 THEN "address_gaps"
             ELSE "critical_collection",
         urgency_level |->
             IF triage_pct >= 900 /\ Len(missing_critical) = 0 THEN "Low"
             ELSE IF triage_pct >= 700 THEN "Medium"
             ELSE "High"]

\* avg_quality of _calculate_overall_quality: the mean confidence_score of the
\* complete fields, 0 when there is none
AverageQuality(field_analysis) ==
    LET complete == SelectSeq(field_analysis, LAMBDA f : f.status = "complete")
        idx == DOMAIN complete
    IN  IF complete # <<>>
        THEN [num |-> SumOver(idx, [i \in idx |-> complete[i].confidence_score]),
              den |-> Len(complete)]
        ELSE [num |-> 0, den |-> 1]

\* triage 50%, average quality 30%, appetite 20%, from the two percentages
\* (in tenths) and the average; the result is in tenths
WeightedQuality(triage_pct, avg_quality, appetite_pct) ==
    RoundDiv((5 * triage_pct + 2 * appetite_pct) * avg_quality.den
                 + 30 * avg_quality.num,
             10 * avg_quality.den)

\* _calculate_overall_quality(field_analysis, completeness), in tenths
CalculateOverallQuality(field_analysis, completeness) ==
    WeightedQuality(completeness.triage.percentage, AverageQuality(field_analysis),
                    completeness.appetite.percentage)

\* _determine_overall_status(completeness, quality_tiers)
DetermineOverallStatus(completeness, quality_tiers) ==
    LET triage_pct == completeness.triage.percentage
    IN  IF triage_pct >= 950 /\ Len(quality_tiers.missing_required) = 0 THEN "excellent"
        ELSE IF triage_pct >= 850 THEN "good"
        ELSE IF triage_pct >= 700 THEN "fair"
        ELSE "poor"

\* _create_error_response(transaction_id, error_message)
CreateErrorResponse(transaction_id, error_message) ==
    [analysis_summary |-> <<>>, completeness_analysis |-> <<>>,
     data_quality_tiers |-> <<>>, risk_assessment |-> <<>>, next_steps |-> <<>>,
     transaction_id |-> transaction_id, error |-> error_message]

\* the result run_sync assembles from the field analysis
ChkResult(transaction_id, modifications, field_analysis, completeness) ==
    [analysis_summary |->
        [overall_status |->
            DetermineOverallStatus(completeness, AssessQualityTiers(field_analysis)),
         quality_score |-> CalculateOverallQuality(field_analysis, completeness),
         is_initial_run |-> ~modifications.given,
         user_modifications_applied |-> Len(modifications.entries)],
     completeness_analysis |-> completeness,
     data_quality_tiers |-> AssessQualityTiers(field_analysis),
     risk_assessment |-> AssessRiskReadiness(field_analysis, completeness),
     next_steps |->
        GenerateNextSteps(field_analysis, completeness,
                          AssessRiskReadiness(field_analysis, completeness)),
     field_details |-> field_analysis,
     transaction_id |-> transaction_id]

\* run_sync after the modifications were applied
ChkAnalyze(required, mappings, transaction_id, modifications, applied) ==
    IF ~applied.ok THEN CreateErrorResponse(transaction_id, "error_during_analysis")
    ELSE LET analysed ==
                 AnalyzeFields(required, mappings, applied.data, modifications.entries)
         IN  IF ~analysed.ok
             THEN CreateErrorResponse(transaction_id, "error_during_analysis")
             ELSE ChkResult(transaction_id, modifications, analysed.fields,
                            CalculateCompleteness(analysed.fields))

\* SubmissionCompletenessChecker.run_sync(transaction_id, user_modifications);
\* `fetched` is what _fetch_submission_data returns for the id ({} when the
\* store has no such document)
CheckerToolRunSync(required, mappings, transaction_id, fetched, modifications) ==
    IF transaction_id = "" THEN CreateErrorResponse("", "no_transaction_id")
    ELSE IF ~Truthy(fetched) THEN CreateErrorResponse(transaction_id, "no_submission_data")
    ELSE ChkAnalyze(required, mappings, transaction_id, modifications,
                    IF modifications.entries # <<>>
                    THEN ApplyUserModifications(mappings, fetched, modifications.entries)
                    ELSE [ok |-> TRUE, data |-> fetched])

----------------------------------------------------------------------------
(* PropertyValuationTool: text *)

UpperCase ==
    <<"A", "B", "C", "D", "E", "F", "G", "H", "I", "J", "K", "L", "M",
      "N", "O", "P", "Q", "R", "S", "T", "U", "V", "W", "X", "Y", "Z">>

LowerCase ==
    <<"a", "b", "c", "d", "e", "f", "g", "h", "i", "j", "k", "l", "m",
      "n", "o", "p", "q", "r", "s", "t", "u", "v", "w", "x", "y", "z">>

IsUpperChar(c) == \E i \in DOMAIN UpperCase : UpperCase[i] = c

IsLowerChar(c) == \E i \in DOMAIN LowerCase : LowerCase[i] = c

LowerChar(c) ==
    IF IsUpperChar(c) THEN LowerCase[CHOOSE i \in DOMAIN UpperCase : UpperCase[i] = c]
    ELSE c

UpperChar(c) ==
    IF IsLowerChar(c) THEN UpperCase[CHOOSE i \in DOMAIN LowerCase : LowerCase[i] = c]
    ELSE c

\* str.lower()
Lower(chars) == [i \in DOMAIN chars |-> LowerChar(chars[i])]

\* str.upper()
Upper(chars) == [i \in DOMAIN chars |-> UpperChar(chars[i])]

IsAlnum(c) == c \in Digits \/ IsUpperChar(c) \/ IsLowerChar(c)

\* re.sub(r'[^a-zA-Z0-9]', '', address.lower())
CleanAddr(chars) == SelectSeq(Lower(chars), IsAlnum)

\* set(text.split()): the maximal runs of non-whitespace characters
WordsOf(chars) ==
    {SubSeq(chars, p[1], p[2]) :
        p \in {q \in (DOMAIN chars) \X (DOMAIN chars) :
                  /\ q[1] <= q[2]
                  /\ \A k \in q[1]..q[2] : chars[k] \notin Whitespace
                  /\ (q[1] = 1 \/ chars[q[1] - 1] \in Whitespace)
                  /\ (q[2] = Len(chars) \/ chars[q[2] + 1] \in Whitespace)}}

\* the end of the run of digits that starts at position i
DigitRunEnd(chars, i) ==
    CHOOSE j \in i..Len(chars) :
        /\ \A k \in i..j : chars[k] \in Digits
        /\ (j = Len(chars) \/ chars[j + 1] \notin Digits)

\* the text r'([0-9]+|[A-Z][0-9][A-Z][0-9]+)' matches at position i, <<>> if none
DocIdMatchAt(chars, i) ==
    IF chars[i] \in Digits THEN SubSeq(chars, i, DigitRunEnd(chars, i))
    ELSE IF /\ i + 3 <= Len(chars)
            /\ IsUpperChar(chars[i]) /\ chars[i + 1] \in Digits
            /\ IsUpperChar(chars[i + 2]) /\ chars[i + 3] \in Digits
    THEN SubSeq(chars, i, DigitRunEnd(chars, i + 3))
    ELSE <<>>

\* re.search(r'([0-9]+|[A-Z][0-9][A-Z][0-9]+)', location_id): the leftmost match
DocIdSearch(chars) ==
    LET starts == {i \in DOMAIN chars : DocIdMatchAt(chars, i) # <<>>}
    IN  IF starts = {} THEN [found |-> FALSE, text |-> <<>>]
        ELSE [found |-> TRUE,
              text |-> DocIdMatchAt(chars, CHOOSE i \in starts : \A j \in starts : i <= j)]

----------------------------------------------------------------------------
(* PropertyValuationTool: property records of the two sections *)

\* a property record is a function from its keys to JSON values
NoFields == [k \in {} |-> None]

\* data.get(key, "")
GetOr(data, key) == IF key \in DOMAIN data THEN data[key] ELSE Str(<<>>)

\* a == b of two JSON values: True is 1 and False is 0
PyEq(a, b) ==
    IF a.t \in {"num", "bool"} /\ b.t \in {"num", "bool"}
    THEN PyFloat(a).n = PyFloat(b).n
    ELSE a = b

\* value["value"] for a {"value": ...} node, else the value itself
Unwrap(value) ==
    IF IsDict(value) /\ "value" \in DOMAIN value.d THEN value.d["value"] ELSE value

\* the entries of item[name], unwrapped, when it is a mapping
SectionFields(item, name) ==
    IF name \in DOMAIN item.d /\ IsDict(item.d[name])
    THEN [k \in DOMAIN item.d[name].d |-> Unwrap(item.d[name].d[k])]
    ELSE NoFields

\* f"coverage_{key.lower()}" for the coverage keys of the modelled documents
CoverageKey(key) ==
    CASE key = "Building" -> "coverage_building"
      [] key = "Contents" -> "coverage_contents"
      [] key = "Business_Income" -> "coverage_business_income"
      [] OTHER -> "coverage_" \o key

\* the property_data built from one item of the "Property" section
StandardPropertyData(item) ==
    LET facts == SectionFields(item, "standard_facts")
        limits == IF "limits" \in DOMAIN item.d /\ IsDict(item.d["limits"])
                  THEN item.d["limits"].d ELSE NoFields
        cov == IF "100_pct_coverage_limits" \in DOMAIN limits
                  /\ IsDict(limits["100_pct_coverage_limits"])
               THEN limits["100_pct_coverage_limits"].d ELSE NoFields
        coverage == [ck \in {CoverageKey(k) : k \in DOMAIN cov} |->
                        Unwrap(cov[CHOOSE k \in DOMAIN cov : CoverageKey(k) = ck])]
        limit == IF "100_pct_limit" \in DOMAIN limits
                 THEN "building_value" :> Unwrap(limits["100_pct_limit"])
                 ELSE NoFields
        details == SectionFields(item, "building_details")
        data == details @@ limit @@ coverage @@ facts
        loc == IF "location_doc_id" \in DOMAIN data
               THEN "_location_id" :> data["location_doc_id"] ELSE NoFields
        addr == IF "location_address" \in DOMAIN data
                THEN "_address" :> data["location_address"] ELSE NoFields
    IN  addr @@ loc @@ data

\* the property_data built from one item of the "Advanced Property" section;
\* [ok |-> FALSE] when re.search raises on a location_id that is not text
AdvancedPropertyData(item) ==
    LET data == SectionFields(item, "protection_details")
                    @@ SectionFields(item, "atc_details")
                    @@ SectionFields(item, "rms_details")
                    @@ SectionFields(item, "advanced_facts")
    IN  IF "location_id" \notin DOMAIN data THEN [ok |-> TRUE, data |-> data]
        ELSE IF ~IsStr(data["location_id"]) THEN [ok |-> FALSE, data |-> data]
        ELSE LET found == DocIdSearch(data["location_id"].s)
                 doc == IF found.found THEN "_location_doc_id" :> Str(found.text)
                        ELSE NoFields
             IN  [ok |-> TRUE,
                  data |-> doc @@ ("_location_id" :> data["location_id"]) @@ data]

\* the items of submission_data[name] that are mappings, when it is a list
SectionItems(submission_data, name) ==
    IF name \in DOMAIN submission_data.d /\ IsList(submission_data.d[name])
    THEN SelectSeq(submission_data.d[name].l, IsDict)
    ELSE <<>>

StandardProperties(submission_data) ==
    LET items == SectionItems(submission_data, "Property")
    IN  [i \in DOMAIN items |-> StandardPropertyData(items[i])]

\* [ok |-> FALSE] when building one of the records raises
AdvancedProperties(submission_data) ==
    LET items == SectionItems(submission_data, "Advanced Property")
        built == [i \in DOMAIN items |-> AdvancedPropertyData(items[i])]
    IN  [ok |-> \A i \in DOMAIN built : built[i].ok,
         properties |-> [i \in DOMAIN built |-> built[i].data]]

----------------------------------------------------------------------------
(* PropertyValuationTool: merging the two sections *)

PropText == <<"P", "R", "O", "P", "_">>

StandardText == <<"s", "t", "a", "n", "d", "a", "r", "d">>

AdvancedText == <<"a", "d", "v", "a", "n", "c", "e", "d">>

\* key.startswith("_"), for the keys of the modelled records
IsHelperKey(key) == key \in {"_location_id", "_address", "_location_doc_id"}

\* the least / greatest index of a set of indexes, 0 when it is empty
FirstOf(S) == IF S = {} THEN 0 ELSE CHOOSE i \in S : \A j \in S : i <= j

LastOf(S) == IF S = {} THEN 0 ELSE CHOOSE i \in S : \A j \in S : j <= i

\* building address_to_properties: .lower() raises on an address that is truthy
\* and not text
AddressesAreText(standard) ==
    \A i \in DOMAIN standard :
        Truthy(GetOr(standard[i], "location_address"))
            => IsStr(GetOr(standard[i], "location_address"))

\* the merged record a standard record starts as
AsStandardProperty(std_prop, n) ==
    ("property_id" :> Str(PropText \o NumText(n)))
        @@ ("source" :> Str(StandardText)) @@ std_prop

\* an unmatched advanced record appended as a property of its own
AsNewProperty(adv_prop, n) ==
    ("property_id" :> Str(PropText \o NumText(n)))
        @@ ("source" :> Str(AdvancedText))
        @@ ("has_advanced_data" :> Bool(TRUE)) @@ adv_prop

\* the precedence slip: the advanced record's value is written over whatever the
\* matched record holds
UpdateWithAdvancedFirst(merged_prop, adv_prop) ==
    LET taken == {k \in DOMAIN adv_prop : ~IsHelperKey(k)}
    IN  ("has_advanced_data" :> Bool(TRUE))
            @@ [k \in taken |-> adv_prop[k]] @@ merged_prop

\* the matched record after the advanced data is written into it: a key is
\* taken when the record lacks it or holds a falsy value for it
UpdateWith(merged_prop, adv_prop) ==
    LET taken == {k \in DOMAIN adv_prop :
                     /\ k \notin DOMAIN merged_prop \/ ~Truthy(merged_prop[k])
                     /\ ~IsHelperKey(k)}
    IN  ("has_advanced_data" :> Bool(TRUE))
            @@ [k \in taken |-> adv_prop[k]] @@ merged_prop

\* property_map[f"doc_id:{doc_id}"]: the last standard record with that id
ByDocId(standard, adv_prop) ==
    IF "_location_doc_id" \notin DOMAIN adv_prop THEN 0
    ELSE LastOf({i \in DOMAIN standard :
                    /\ Truthy(GetOr(standard[i], "location_doc_id"))
                    /\ PyStr(standard[i]["location_doc_id"])
                           = adv_prop["_location_doc_id"].s})

\* the first merged record with the same location_id
ByLocationId(merged, adv_prop) ==
    IF ~Truthy(GetOr(adv_prop, "location_id")) THEN 0
    ELSE FirstOf({i \in DOMAIN merged :
                     /\ Truthy(GetOr(merged[i], "location_id"))
                     /\ PyEq(merged[i]["location_id"], adv_prop["location_id"])})

\* property_map[f"addr:{clean_addr}"]: the last standard record with the same
\* cleaned address; [ok |-> FALSE] when .lower() raises
ByAddress(standard, adv_prop) ==
    LET address == GetOr(adv_prop, "location_address")
    IN  IF ~Truthy(address) THEN [ok |-> TRUE, index |-> 0]
        ELSE IF ~IsStr(address) THEN [ok |-> FALSE, index |-> 0]
        ELSE [ok |-> TRUE,
              index |-> LastOf({i \in DOMAIN standard :
                                   /\ Truthy(GetOr(standard[i], "location_address"))
                                   /\ CleanAddr(standard[i]["location_address"].s)
                                          = CleanAddr(address.s)})]

\* the first merged record whose address shares more than one word with the
\* advanced record's; [ok |-> FALSE] when .split() raises before a match
BySimilarAddress(merged, adv_prop) ==
    LET adv_address == GetOr(adv_prop, "location_address")
        both(i) == Truthy(GetOr(merged[i], "location_address")) /\ Truthy(adv_address)
        text(i) == IsStr(merged[i]["location_address"]) /\ IsStr(adv_address)
        stops == {i \in DOMAIN merged :
                     both(i) /\ (text(i) =>
                         Cardinality(WordsOf(merged[i]["location_address"].s)
                                         \cap WordsOf(adv_address.s)) > 1)}
        first == FirstOf(stops)
    IN  IF first = 0 THEN [ok |-> TRUE, index |-> 0]
        ELSE IF ~text(first) THEN [ok |-> FALSE, index |-> 0]
        ELSE [ok |-> TRUE, index |-> first]

\* the first merged record of standard source without total_building_area_sqft,
\* tried only when both sections hold the same number of records
ByPosition(standard, advanced, merged) ==
    IF Len(advanced) # Len(standard) THEN 0
    ELSE FirstOf({i \in DOMAIN merged :
                     /\ "source" \in DOMAIN merged[i]
                     /\ merged[i]["source"] = Str(StandardText)
                     /\ "total_building_area_sqft" \notin DOMAIN merged[i]})

\* the priority slip: the address is tried before the ids
MatchAdvancedAddressFirst(standard, advanced, merged, adv_prop) ==
    LET r1 == ByDocId(standard, adv_prop)
        r2 == ByLocationId(merged, adv_prop)
        r3 == ByAddress(standard, adv_prop)
        r4 == BySimilarAddress(merged, adv_prop)
        r5 == ByPosition(standard, advanced, merged)
        hit(rule, index) == [ok |-> TRUE, rule |-> rule, index |-> index]
        raised == [ok |-> FALSE, rule |-> "none", index |-> 0]
    IN  IF ~r3.ok THEN raised
        ELSE IF r3.index > 0 THEN hit("address", r3.index)
        ELSE IF r1 > 0 THEN hit("doc_id", r1)
        ELSE IF r2 > 0 THEN hit("location_id", r2)
        ELSE IF ~r4.ok THEN raised
        ELSE IF r4.index > 0 THEN hit("similar_address", r4.index)
        ELSE IF r5 > 0 THEN hit("position", r5)
        ELSE hit("new", 0)

\* the matching of one advanced record: the rule that matched and the index of
\* the merged record (rule "new", index 0 when none matched); [ok |-> FALSE]
\* when a rule raises
MatchAdvanced(standard, advanced, merged, adv_prop) ==
    LET r1 == ByDocId(standard, adv_prop)
        r2 == ByLocationId(merged, adv_prop)
        r3 == ByAddress(standard, adv_prop)
        r4 == BySimilarAddress(merged, adv_prop)
        r5 == ByPosition(standard, advanced, merged)
        hit(rule, index) == [ok |-> TRUE, rule |-> rule, index |-> index]
        raised == [ok |-> FALSE, rule |-> "none", index |-> 0]
    IN  IF r1 > 0 THEN hit("doc_id", r1)
        ELSE IF r2 > 0 THEN hit("location_id", r2)
        ELSE IF ~r3.ok THEN raised
        ELSE IF r3.index > 0 THEN hit("address", r3.index)
        ELSE IF ~r4.ok THEN raised
        ELSE IF r4.index > 0 THEN hit("similar_address", r4.index)
        ELSE IF r5 > 0 THEN hit("position", r5)
        ELSE hit("new", 0)

\* the loop over the advanced records from the j-th on; acc holds the merged
\* records so far and the log of the matches printed
RECURSIVE MergeAdvanced(_, _, _, _)
MergeAdvanced(standard, advanced, j, acc) ==
    IF ~acc.ok \/ j > Len(advanced) THEN acc
    ELSE LET m == MatchAdvanced(standard, advanced, acc.merged, advanced[j])
             n == Len(acc.merged) + 1
         IN  IF ~m.ok THEN [acc EXCEPT !.ok = FALSE]
             ELSE MergeAdvanced(standard, advanced, j + 1,
                      [ok |-> TRUE,
                       merged |->
                           IF m.index > 0
                           THEN [acc.merged EXCEPT
                                    ![m.index] = UpdateWith(@, advanced[j])]
                           ELSE Append(acc.merged, AsNewProperty(advanced[j], n)),
                       log |-> Append(acc.log,
                                      [rule |-> m.rule, advanced |-> j,
                                       property |-> IF m.index > 0 THEN m.index ELSE n])])

\* steps 1 to 3 of _extract_properties_from_submission: the merged records
\* before post-processing, with the log of matches
MergeProperties(submission_data) ==
    LET failed == [ok |-> FALSE, merged |-> <<>>, log |-> <<>>]
    IN  IF ~IsDict(submission_data) THEN failed
        ELSE LET standard == StandardProperties(submission_data)
                 advanced == AdvancedProperties(submission_data)
             IN  IF ~advanced.ok \/ ~AddressesAreText(standard) THEN failed
                 ELSE MergeAdvanced(standard, advanced.properties, 1,
                          [ok |-> TRUE,
                           merged |-> [i \in DOMAIN standard |->
                                          AsStandardProperty(standard[i], i)],
                           log |-> <<>>])

----------------------------------------------------------------------------
(* PropertyValuationTool: reading fields, post-processing and deduplication *)

\* _get_numeric_value(data, possible_keys): the first key whose value float()
\* accepts once "$" and "," are removed from text; 0 when there is none
RECURSIVE GetNumericValue(_, _)
GetNumericValue(data, possible_keys) ==
    IF possible_keys = <<>> THEN 0
    ELSE LET key == Head(possible_keys)
             value == Unwrap(data[key])
             parsed == PyFloat(IF IsStr(value)
                               THEN Str(SelectSeq(value.s, LAMBDA c : c \notin {"$", ","}))
                               ELSE value)
         IN  IF key \in DOMAIN data /\ parsed.ok THEN parsed.n
             ELSE GetNumericValue(data, Tail(possible_keys))

\* _extract_value(data, possible_keys): str() of the first truthy value, "" when
\* there is none
RECURSIVE ExtractValue(_, _)
ExtractValue(data, possible_keys) ==
    IF possible_keys = <<>> THEN <<>>
    ELSE LET key == Head(possible_keys)
         IN  IF key \in DOMAIN data /\ Truthy(Unwrap(data[key]))
             THEN PyStr(Unwrap(data[key]))
             ELSE ExtractValue(data, Tail(possible_keys))

YesTexts == {<<"y", "e", "s">>, <<"t", "r", "u", "e">>, <<"y">>, <<"t">>, <<"1">>}

\* _extract_boolean(data, possible_keys): decided by the first key that holds a
\* bool, a text or a number; False when there is none
RECURSIVE ExtractBoolean(_, _)
ExtractBoolean(data, possible_keys) ==
    IF possible_keys = <<>> THEN FALSE
    ELSE LET key == Head(possible_keys)
             value == Unwrap(data[key])
         IN  IF key \in DOMAIN data /\ value.t \in {"bool", "str", "num"}
             THEN CASE value.t = "bool" -> value.b
                    [] value.t = "str" -> Lower(value.s) \in YesTexts
                    [] value.t = "num" -> value.n > 0
             ELSE ExtractBoolean(data, Tail(possible_keys))

\* data.get(k1, "") or data.get(k2, "") or ...: the first truthy value, else the last
RECURSIVE OrChain(_, _)
OrChain(data, keys) ==
    IF Len(keys) = 1 \/ Truthy(GetOr(data, Head(keys))) THEN GetOr(data, Head(keys))
    ELSE OrChain(data, Tail(keys))

UnknownAddress ==
    <<"A", "d", "d", "r", "e", "s", "s", " ", "U", "n", "k", "n", "o", "w", "n">>

\* ", ".join(parts)
RECURSIVE JoinComma(_)
JoinComma(parts) ==
    IF Len(parts) = 1 THEN parts[1].s
    ELSE parts[1].s \o <<",", " ">> \o JoinComma(Tail(parts))

\* the clean record of one merged record (step 4); [ok |-> FALSE] when the
\* join raises on an address component that is not text
CleanProperty(prop) ==
    LET parts == SelectSeq(<<OrChain(prop, <<"address", "location_address">>),
                             OrChain(prop, <<"city", "location_city">>),
                             OrChain(prop, <<"state", "location_state">>),
                             OrChain(prop, <<"zip", "zip_code", "postal_code",
                                             "location_postal_code">>)>>,
                           Truthy)
    IN  IF \E i \in DOMAIN parts : ~IsStr(parts[i]) THEN [ok |-> FALSE]
        ELSE [ok |-> TRUE,
              property |->
                [property_id |-> prop["property_id"],
                 address |-> Str(IF parts = <<>> THEN UnknownAddress ELSE JoinComma(parts)),
                 building_value |-> Num(GetNumericValue(prop,
                     <<"building_value", "building_values", "value", "reported_value",
                       "building", "building_limit", "coverage_building",
                       "100_pct_limit">>)),
                 square_footage |-> Num(GetNumericValue(prop,
                     <<"square_footage", "square_feet", "sq_ft", "sqft", "area",
                       "building_area", "total_area", "total_building_area_sqft">>)),
                 year_built |-> Num(GetNumericValue(prop,
                     <<"year_built", "year", "built", "construction_year",
                       "year_of_construction">>)),
                 construction_type |-> Str(ExtractValue(prop,
                     <<"construction", "construction_type", "building_class", "class",
                       "construction_class">>)),
                 occupancy |-> Str(ExtractValue(prop,
                     <<"occupancy", "occupancy_type", "use", "building_use",
                       "class_description", "location_occupancy_description">>)),
                 state |-> Str(ExtractValue(prop, <<"state", "state_code", "location_state">>)),
                 sprinklered |-> Bool(ExtractBoolean(prop,
                     <<"sprinklered", "sprinkler", "has_sprinklers", "fire_protection",
                       "location_have_sprinklers">>)),
                 content_value |-> Num(GetNumericValue(prop,
                     <<"contents", "content_value", "content", "contents_value",
                       "personal_property", "coverage_contents",
                       "coverage_personal_property">>)),
                 business_income_value |-> Num(GetNumericValue(prop,
                     <<"business_income", "bi", "income", "business_interruption",
                       "time_element", "coverage_business_income",
                       "coverage_business_interruption">>)),
                 roof_age |-> Num(GetNumericValue(prop, <<"roof_age", "roof_year", "roof">>)),
                 roof_type |-> Str(ExtractValue(prop, <<"roof_type", "roof">>))]]

NumericFields == {"building_value", "square_footage", "content_value", "business_income_value"}

\* max(values) of a non-empty list of numbers
MaxOf(values) ==
    values[CHOOSE i \in DOMAIN values : \A j \in DOMAIN values : values[j].n <= values[i].n]

\* the group slip: the first record of the group is kept as it is
CombineGroupFirstWins(props) == props[1]

\* the one record that takes the place of a group of records with one address
CombineGroup(props) ==
    IF Len(props) = 1 THEN props[1]
    ELSE [field \in DOMAIN props[1] |->
            LET values == SelectSeq([i \in DOMAIN props |-> props[i][field]], Truthy)
            IN  CASE field \in {"address", "property_id"} -> props[1][field]
                  [] field \in NumericFields ->
                        IF values # <<>> THEN MaxOf(values) ELSE Num(0)
                  [] OTHER ->
                        IF values # <<>> THEN values[1]
                        ELSE IF field \in {"year_built", "roof_age"} THEN Num(0)
                        ELSE Str(<<>>)]

\* the final deduplication: one record per address, in order of first appearance
RECURSIVE Deduplicate(_)
Deduplicate(props) ==
    IF props = <<>> THEN <<>>
    ELSE <<CombineGroup(SelectSeq(props,
                                  LAMBDA p : p["address"] = Head(props)["address"]))>>
         \o Deduplicate(SelectSeq(props,
                                  LAMBDA p : p["address"] # Head(props)["address"]))

\* the post-processing and deduplication of the merged records (lines 885-1038)
PostProcess(merge) ==
    LET clean == [i \in DOMAIN merge.merged |-> CleanProperty(merge.merged[i])]
    IN  IF ~merge.ok \/ \E i \in DOMAIN clean : ~clean[i].ok
        THEN [ok |-> FALSE, properties |-> <<>>, merged |-> merge.merged,
              log |-> merge.log]
        ELSE [ok |-> TRUE,
              properties |-> Deduplicate([i \in DOMAIN clean |-> clean[i].property]),
              merged |-> merge.merged, log |-> merge.log]

\* _extract_properties_from_submission(submission_data): the final records, with
\* the merged records and the match log behind them; [ok |-> FALSE] when it raises
ExtractPropertiesFromSubmission(submission_data) ==
    PostProcess(MergeProperties(submission_data))

----------------------------------------------------------------------------
(* PropertyValuationTool: numbers and reference tables *)

\* A float of the valuation is held as an exact fraction num/den in lowest
\* terms, den > 0; the rounding of float arithmetic is left out.
RECURSIVE Gcd(_, _)
Gcd(a, b) == IF b = 0 THEN a ELSE Gcd(b, a % b)

Magnitude(n) == IF n < 0 THEN 0 - n ELSE n

Rat(n, d) ==
    LET g == Gcd(Magnitude(n), d)
    IN  [num |-> n \div g, den |-> d \div g]

Whole(n) == [num |-> n, den |-> 1]

\* a * b
RatMul(a, b) ==
    LET g1 == Gcd(Magnitude(a.num), b.den)
        g2 == Gcd(Magnitude(b.num), a.den)
    IN  IF a.num = 0 \/ b.num = 0 THEN Whole(0)
        ELSE [num |-> (a.num \div g1) * (b.num \div g2),
              den |-> (a.den \div g2) * (b.den \div g1)]

\* a / b for b # 0
RatDiv(a, b) ==
    RatMul(a, IF b.num < 0 THEN [num |-> 0 - b.den, den |-> 0 - b.num]
              ELSE [num |-> b.den, den |-> b.num])

\* a + b
RatAdd(a, b) ==
    LET g == Gcd(a.den, b.den)
    IN  Rat(a.num * (b.den \div g) + b.num * (a.den \div g), (a.den \div g) * b.den)

\* a - b
RatSub(a, b) == RatAdd(a, [num |-> 0 - b.num, den |-> b.den])

\* a < b
RatLt(a, b) ==
    LET g == Gcd(a.den, b.den)
    IN  a.num * (b.den \div g) < b.num * (a.den \div g)

\* abs(a)
RatAbs(a) == [num |-> Magnitude(a.num), den |-> a.den]

\* min(a, b)
RatMin(a, b) == IF RatLt(b, a) THEN b ELSE a

\* needle in hay
Contains(hay, needle) ==
    \E i \in 0..(Len(hay) - Len(needle)) : SubSeq(hay, i + 1, i + Len(needle)) = needle

\* text.startswith(prefix)
StartsWith(text, prefix) ==
    Len(prefix) <= Len(text) /\ SubSeq(text, 1, Len(prefix)) = prefix

\* _construction_costs, in the order of the table: dollars per square foot
ConstructionCosts ==
    <<[name |-> <<"F", "r", "a", "m", "e">>, cost |-> 125],
      [name |-> <<"J", "o", "i", "s", "t", "e", "d", " ", "M", "a", "s", "o", "n", "r", "y">>, cost |-> 145],
      [name |-> <<"N", "o", "n", "c", "o", "m", "b", "u", "s", "t", "i", "b", "l", "e">>, cost |-> 170],
      [name |-> <<"M", "a", "s", "o", "n", "r", "y", " ", "N", "o", "n", "c", "o", "m", "b", "u", "s", "t", "i", "b", "l", "e">>, cost |-> 190],
      [name |-> <<"M", "o", "d", "i", "f", "i", "e", "d", " ", "F", "i", "r", "e", " ", "R", "e", "s", "i", "s", "t", "i", "v", "e">>, cost |-> 220],
      [name |-> <<"F", "i", "r", "e", " ", "R", "e", "s", "i", "s", "t", "i", "v", "e">>, cost |-> 250],
      [name |-> <<"W", "o", "o", "d", " ", "F", "r", "a", "m", "e">>, cost |-> 125],
      [name |-> <<"M", "a", "s", "o", "n", "r", "y">>, cost |-> 145],
      [name |-> <<"S", "t", "e", "e", "l">>, cost |-> 170],
      [name |-> <<"C", "o", "n", "c", "r", "e", "t", "e">>, cost |-> 190],
      [name |-> <<"R", "e", "i", "n", "f", "o", "r", "c", "e", "d", " ", "C", "o", "n", "c", "r", "e", "t", "e">>, cost |-> 250]>>

\* _occupancy_factors, in the order of the table: factors in hundredths
OccupancyFactors ==
    <<[name |-> <<"O", "f", "f", "i", "c", "e">>, factor |-> 100],
      [name |-> <<"R", "e", "t", "a", "i", "l">>, factor |-> 110],
      [name |-> <<"W", "a", "r", "e", "h", "o", "u", "s", "e">>, factor |-> 85],
      [name |-> <<"M", "a", "n", "u", "f", "a", "c", "t", "u", "r", "i", "n", "g">>, factor |-> 115],
      [name |-> <<"H", "e", "a", "l", "t", "h", "c", "a", "r", "e">>, factor |-> 130],
      [name |-> <<"H", "o", "s", "p", "i", "t", "a", "l", "i", "t", "y">>, factor |-> 120],
      [name |-> <<"E", "d", "u", "c", "a", "t", "i", "o", "n">>, factor |-> 125],
      [name |-> <<"R", "e", "s", "t", "a", "u", "r", "a", "n", "t">>, factor |-> 115],
      [name |-> <<"I", "n", "d", "u", "s", "t", "r", "i", "a", "l">>, factor |-> 110],
      [name |-> <<"R", "e", "s", "i", "d", "e", "n", "t", "i", "a", "l">>, factor |-> 105],
      [name |-> <<"M", "i", "x", "e", "d", " ", "U", "s", "e">>, factor |-> 108],
      [name |-> <<"A", "p", "a", "r", "t", "m", "e", "n", "t">>, factor |-> 105],
      [name |-> <<"S", "h", "o", "p", "p", "i", "n", "g", " ", "C", "e", "n", "t", "e", "r">>, factor |-> 112],
      [name |-> <<"H", "o", "t", "e", "l">>, factor |-> 120],
      [name |-> <<"M", "e", "d", "i", "c", "a", "l">>, factor |-> 125],
      [name |-> <<"S", "t", "o", "r", "a", "g", "e">>, factor |-> 85]>>

\* the state names and codes of _extract_state, in the order of its table, with
\* the multiplier of _state_multipliers for the code in hundredths
StateTable ==
    <<[name |-> <<"A", "L", "A", "B", "A", "M", "A">>,
       code |-> <<"A", "L">>, multiplier |-> 87],
      [name |-> <<"A", "L", "A", "S", "K", "A">>,
       code |-> <<"A", "K">>, multiplier |-> 123],
      [name |-> <<"A", "R", "I", "Z", "O", "N", "A">>,
       code |-> <<"A", "Z">>, multiplier |-> 92],
      [name |-> <<"A", "R", "K", "A", "N", "S", "A", "S">>,
       code |-> <<"A", "R">>, multiplier |-> 85],
      [name |-> <<"C", "A", "L", "I", "F", "O", "R", "N", "I", "A">>,
       code |-> <<"C", "A">>, multiplier |-> 125],
      [name |-> <<"C", "O", "L", "O", "R", "A", "D", "O">>,
       code |-> <<"C", "O">>, multiplier |-> 105],
      [name |-> <<"C", "O", "N", "N", "E", "C", "T", "I", "C", "U", "T">>,
       code |-> <<"C", "T">>, multiplier |-> 115],
      [name |-> <<"D", "E", "L", "A", "W", "A", "R", "E">>,
       code |-> <<"D", "E">>, multiplier |-> 107],
      [name |-> <<"F", "L", "O", "R", "I", "D", "A">>,
       code |-> <<"F", "L">>, multiplier |-> 95],
      [name |-> <<"G", "E", "O", "R", "G", "I", "A">>,
       code |-> <<"G", "A">>, multiplier |-> 90],
      [name |-> <<"H", "A", "W", "A", "I", "I">>,
       code |-> <<"H", "I">>, multiplier |-> 130],
      [name |-> <<"I", "D", "A", "H", "O">>,
       code |-> <<"I", "D">>, multiplier |-> 92],
      [name |-> <<"I", "L", "L", "I", "N", "O", "I", "S">>,
       code |-> <<"I", "L">>, multiplier |-> 103],
      [name |-> <<"I", "N", "D", "I", "A", "N", "A">>,
       code |-> <<"I", "N">>, multiplier |-> 95],
      [name |-> <<"I", "O", "W", "A">>,
       code |-> <<"I", "A">>, multiplier |-> 93],
      [name |-> <<"K", "A", "N", "S", "A", "S">>,
       code |-> <<"K", "S">>, multiplier |-> 90],
      [name |-> <<"K", "E", "N", "T", "U", "C", "K", "Y">>,
       code |-> <<"K", "Y">>, multiplier |-> 93],
      [name |-> <<"L", "O", "U", "I", "S", "I", "A", "N", "A">>,
       code |-> <<"L", "A">>, multiplier |-> 88],
      [name |-> <<"M", "A", "I", "N", "E">>,
       code |-> <<"M", "E">>, multiplier |-> 102],
      [name |-> <<"M", "A", "R", "Y", "L", "A", "N", "D">>,
       code |-> <<"M", "D">>, multiplier |-> 108],
      [name |-> <<"M", "A", "S", "S", "A", "C", "H", "U", "S", "E", "T", "T", "S">>,
       code |-> <<"M", "A">>, multiplier |-> 118],
      [name |-> <<"M", "I", "C", "H", "I", "G", "A", "N">>,
       code |-> <<"M", "I">>, multiplier |-> 100],
      [name |-> <<"M", "I", "N", "N", "E", "S", "O", "T", "A">>,
       code |-> <<"M", "N">>, multiplier |-> 103],
      [name |-> <<"M", "I", "S", "S", "I", "S", "S", "I", "P", "P", "I">>,
       code |-> <<"M", "S">>, multiplier |-> 85],
      [name |-> <<"M", "I", "S", "S", "O", "U", "R", "I">>,
       code |-> <<"M", "O">>, multiplier |-> 95],
      [name |-> <<"M", "O", "N", "T", "A", "N", "A">>,
       code |-> <<"M", "T">>, multiplier |-> 95],
      [name |-> <<"N", "E", "B", "R", "A", "S", "K", "A">>,
       code |-> <<"N", "E">>, multiplier |-> 90],
      [name |-> <<"N", "E", "V", "A", "D", "A">>,
       code |-> <<"N", "V">>, multiplier |-> 105],
      [name |-> <<"N", "E", "W", " ", "H", "A", "M", "P", "S", "H", "I", "R", "E">>,
       code |-> <<"N", "H">>, multiplier |-> 105],
      [name |-> <<"N", "E", "W", " ", "J", "E", "R", "S", "E", "Y">>,
       code |-> <<"N", "J">>, multiplier |-> 115],
      [name |-> <<"N", "E", "W", " ", "M", "E", "X", "I", "C", "O">>,
       code |-> <<"N", "M">>, multiplier |-> 90],
      [name |-> <<"N", "E", "W", " ", "Y", "O", "R", "K">>,
       code |-> <<"N", "Y">>, multiplier |-> 120],
      [name |-> <<"N", "O", "R", "T", "H", " ", "C", "A", "R", "O", "L", "I", "N", "A">>,
       code |-> <<"N", "C">>, multiplier |-> 90],
      [name |-> <<"N", "O", "R", "T", "H", " ", "D", "A", "K", "O", "T", "A">>,
       code |-> <<"N", "D">>, multiplier |-> 95],
      [name |-> <<"O", "H", "I", "O">>,
       code |-> <<"O", "H">>, multiplier |-> 98],
      [name |-> <<"O", "K", "L", "A", "H", "O", "M", "A">>,
       code |-> <<"O", "K">>, multiplier |-> 87],
      [name |-> <<"O", "R", "E", "G", "O", "N">>,
       code |-> <<"O", "R">>, multiplier |-> 108],
      [name |-> <<"P", "E", "N", "N", "S", "Y", "L", "V", "A", "N", "I", "A">>,
       code |-> <<"P", "A">>, multiplier |-> 105],
      [name |-> <<"R", "H", "O", "D", "E", " ", "I", "S", "L", "A", "N", "D">>,
       code |-> <<"R", "I">>, multiplier |-> 110],
      [name |-> <<"S", "O", "U", "T", "H", " ", "C", "A", "R", "O", "L", "I", "N", "A">>,
       code |-> <<"S", "C">>, multiplier |-> 88],
      [name |-> <<"S", "O", "U", "T", "H", " ", "D", "A", "K", "O", "T", "A">>,
       code |-> <<"S", "D">>, multiplier |-> 90],
      [name |-> <<"T", "E", "N", "N", "E", "S", "S", "E", "E">>,
       code |-> <<"T", "N">>, multiplier |-> 88],
      [name |-> <<"T", "E", "X", "A", "S">>,
       code |-> <<"T", "X">>, multiplier |-> 90],
      [name |-> <<"U", "T", "A", "H">>,
       code |-> <<"U", "T">>, multiplier |-> 95],
      [name |-> <<"V", "E", "R", "M", "O", "N", "T">>,
       code |-> <<"V", "T">>, multiplier |-> 103],
      [name |-> <<"V", "I", "R", "G", "I", "N", "I", "A">>,
       code |-> <<"V", "A">>, multiplier |-> 95],
      [name |-> <<"W", "A", "S", "H", "I", "N", "G", "T", "O", "N">>,
       code |-> <<"W", "A">>, multiplier |-> 110],
      [name |-> <<"W", "E", "S", "T", " ", "V", "I", "R", "G", "I", "N", "I", "A">>,
       code |-> <<"W", "V">>, multiplier |-> 97],
      [name |-> <<"W", "I", "S", "C", "O", "N", "S", "I", "N">>,
       code |-> <<"W", "I">>, multiplier |-> 102],
      [name |-> <<"W", "Y", "O", "M", "I", "N", "G">>,
       code |-> <<"W", "Y">>, multiplier |-> 95],
      [name |-> <<"D", "I", "S", "T", "R", "I", "C", "T", " ", "O", "F", " ", "C", "O", "L", "U", "M", "B", "I", "A">>,
       code |-> <<"D", "C">>, multiplier |-> 115]>>

CaCities ==
    <<<<"L", "O", "S", " ", "A", "N", "G", "E", "L", "E", "S">>,
      <<"S", "A", "N", " ", "F", "R", "A", "N", "C", "I", "S", "C", "O">>,
      <<"S", "A", "N", " ", "D", "I", "E", "G", "O">>,
      <<"S", "A", "C", "R", "A", "M", "E", "N", "T", "O">>,
      <<"F", "R", "E", "S", "N", "O">>,
      <<"O", "A", "K", "L", "A", "N", "D">>,
      <<"V", "E", "R", "N", "O", "N">>,
      <<"S", "A", "N", "T", "A", " ", "M", "O", "N", "I", "C", "A">>,
      <<"L", "O", "N", "G", " ", "B", "E", "A", "C", "H">>,
      <<"A", "N", "A", "H", "E", "I", "M">>,
      <<"S", "A", "N", " ", "J", "O", "S", "E">>>>

\* _age_brackets through _get_age_factor(building_age): the factor in hundredths
GetAgeFactor(building_age) ==
    IF building_age <= 10 THEN 100
    ELSE IF building_age <= 25 THEN 105
    ELSE IF building_age <= 50 THEN 110
    ELSE IF building_age <= 75 THEN 115
    ELSE 120

\* _risk_thresholds
VarianceHigh == 25

Underinsurance == 70

Overinsurance == 130

\* content_ratio_high and content_ratio_low, in hundredths
ContentRatioHigh == 80

ContentRatioLow == 20

\* _risk_score_weights
RiskScoreWeights ==
    [underinsurance |-> 35, high_variance |-> 20, overinsurance |-> 15,
     building_age |-> 15, missing_data |-> 10, content_ratio |-> 5]

\* _find_closest_match(value, options), as the index of the option returned:
\* the first option equal to the value without regard to case, else the first
\* that contains it or is contained in it, else the first option
FindClosestMatch(value, options) ==
    LET v == Lower(value)
        exact == {i \in DOMAIN options : Lower(options[i].name) = v}
        partial == {i \in DOMAIN options :
                       \/ Contains(Lower(options[i].name), v)
                       \/ Contains(v, Lower(options[i].name))}
    IN  IF value = <<>> THEN 1
        ELSE IF exact # {} THEN FirstOf(exact)
        ELSE IF partial # {} THEN FirstOf(partial)
        ELSE 1

----------------------------------------------------------------------------
(* PropertyValuationTool: the valuation of one property *)

\* the texts of a list that are not empty, as JSON strings
NonEmptyTexts(texts) ==
    [i \in DOMAIN SelectSeq(texts, LAMBDA t : t # <<>>) |->
        Str(SelectSeq(texts, LAMBDA t : t # <<>>)[i])]

\* _extract_address(property_data)
RECURSIVE AddressField(_, _)
AddressField(property_data, fields) ==
    IF fields = <<>> THEN [found |-> FALSE]
    ELSE IF Head(fields) \in DOMAIN property_data /\ Truthy(property_data[Head(fields)])
    THEN [found |-> TRUE, text |-> PyStr(Unwrap(property_data[Head(fields)]))]
    ELSE AddressField(property_data, Tail(fields))

ExtractAddress(property_data) ==
    LET direct == AddressField(property_data,
                      <<"address", "location_address", "property_address",
                        "street_address", "addr">>)
        address_components ==
            NonEmptyTexts(
              <<ExtractValue(property_data, <<"street", "address_line_1">>),
                ExtractValue(property_data, <<"address_line_2">>),
                ExtractValue(property_data, <<"city", "location_city">>),
                ExtractValue(property_data, <<"state", "state_code", "location_state">>),
                ExtractValue(property_data, <<"zip", "zip_code", "postal_code",
                                              "location_postal_code">>)>>)
    IN  IF direct.found THEN direct.text
        ELSE IF address_components # <<>> THEN JoinComma(address_components)
        ELSE UnknownAddress

\* the code for the text of a state field: a text of two characters in upper
\* case, else the first state whose name starts with the text or the text with
\* the name
StateOfText(value) ==
    LET hits == {i \in DOMAIN StateTable :
                    \/ StartsWith(StateTable[i].name, Upper(value))
                    \/ StartsWith(Upper(value), StateTable[i].name)}
    IN  IF Len(value) = 2 THEN [found |-> TRUE, code |-> Upper(value)]
        ELSE IF hits # {} THEN [found |-> TRUE, code |-> StateTable[FirstOf(hits)].code]
        ELSE [found |-> FALSE]

RECURSIVE StateOfFields(_, _)
StateOfFields(property_data, fields) ==
    IF fields = <<>> THEN [found |-> FALSE]
    ELSE LET value == Unwrap(GetOr(property_data, Head(fields)))
         IN  IF IsStr(value) /\ value.s # <<>> /\ StateOfText(value.s).found
             THEN StateOfText(value.s)
             ELSE StateOfFields(property_data, Tail(fields))

Separators == {",", " "}

\* the state read in an address: two capitals between separators, else the
\* first state of the table whose name is in the address or whose code is one
\* of its words, else CA for one of the listed cities
StateOfAddress(address) ==
    LET padded == <<" ">> \o address \o <<" ">>
        codes == {i \in 1..(Len(padded) - 3) :
                     /\ padded[i] \in Separators
                     /\ IsUpperChar(padded[i + 1]) /\ IsUpperChar(padded[i + 2])
                     /\ padded[i + 3] \in Separators}
        address_upper == Upper(address)
        names == {i \in 1..50 :
                     \/ Contains(address_upper, StateTable[i].name)
                     \/ StateTable[i].code \in WordsOf(address_upper)}
    IN  IF codes # {}
        THEN [found |-> TRUE,
              code |-> <<padded[FirstOf(codes) + 1], padded[FirstOf(codes) + 2]>>]
        ELSE IF names # {} THEN [found |-> TRUE, code |-> StateTable[FirstOf(names)].code]
        ELSE IF \E i \in DOMAIN CaCities : Contains(address_upper, CaCities[i])
        THEN [found |-> TRUE, code |-> <<"C", "A">>]
        ELSE [found |-> FALSE]

\* _extract_state(property_data, address)
ExtractState(property_data, address) ==
    LET field == StateOfFields(property_data, <<"state", "state_code", "location_state">>)
    IN  IF field.found THEN field.code
        ELSE IF address # <<>> /\ StateOfAddress(address).found
        THEN StateOfAddress(address).code
        ELSE <<"I", "L">>

\* _state_multipliers.get(state, 1.0) if state else 1.0, in hundredths
RegionalMultiplier(state) ==
    LET rows == {i \in DOMAIN StateTable : StateTable[i].code = state}
    IN  IF rows = {} THEN 100 ELSE StateTable[FirstOf(rows)].multiplier

Flag(condition, name) == IF condition THEN <<name>> ELSE <<>>

\* the threshold slip: the over-insurance test uses the under-insurance share
IsOverinsuredAtUnderinsurance(building_value, calculated_value) ==
    RatLt(RatMul(calculated_value, Rat(Underinsurance, 100)), Whole(building_value))

\* building_value > calculated_value * (overinsurance / 100)
IsOverinsured(building_value, calculated_value) ==
    RatLt(RatMul(calculated_value, Rat(Overinsurance, 100)), Whole(building_value))

\* _identify_risk_flags(building_value, calculated_value, square_footage,
\* building_age, content_value, roof_age)
IdentifyRiskFlags(building_value, calculated_value, square_footage, building_age, content_value, roof_age) ==
    LET compared == building_value > 0 /\ calculated_value.num > 0
        variance_percentage ==
            RatMul(RatDiv(RatSub(calculated_value, Whole(building_value)),
                          Whole(building_value)), Whole(100))
        content_ratio == Rat(content_value, building_value)
        rated == building_value > 0 /\ content_value > 0
    IN  Flag(compared /\ RatLt(Whole(VarianceHigh), RatAbs(variance_percentage)),
             "HIGH_VARIANCE")
        \o Flag(compared /\ RatLt(Whole(building_value),
                                  RatMul(calculated_value, Rat(Underinsurance, 100))),
                "POTENTIAL_UNDERINSURANCE")
        \o Flag(compared /\ IsOverinsured(building_value, calculated_value),
                "POTENTIAL_OVERINSURANCE")
        \o Flag(square_footage <= 0, "MISSING_SQUARE_FOOTAGE")
        \o Flag(building_value <= 0, "MISSING_BUILDING_VALUE")
        \o Flag(building_age > 50, "OLDER_CONSTRUCTION")
        \o Flag(roof_age > 20, "AGING_ROOF")
        \o Flag(rated /\ RatLt(Rat(ContentRatioHigh, 100), content_ratio),
                "HIGH_CONTENT_RATIO")
        \o Flag(/\ rated
                /\ ~RatLt(Rat(ContentRatioHigh, 100), content_ratio)
                /\ RatLt(content_ratio, Rat(ContentRatioLow, 100))
                /\ building_value > 1000000,
                "LOW_CONTENT_RATIO")

\* the roof slip: a roof age below zero is counted as well
RoofScoreOfAnyAge(roof_age) == RatMin(RatMul(Rat(roof_age, 25), Whole(10)), Whole(10))

\* the roof-age part of the risk score
RoofScore(roof_age) ==
    IF roof_age > 0
    THEN RatMin(RatMul(Rat(roof_age, 25), Whole(10)), Whole(10))
    ELSE Whole(0)

\* _calculate_risk_score(risk_flags, variance_percentage, building_age, roof_age)
CalculateRiskScore(risk_flags, variance_percentage, building_age, roof_age) ==
    LET has(name) == \E i \in DOMAIN risk_flags : risk_flags[i] = name
        points(condition, n) == IF condition THEN Whole(n) ELSE Whole(0)
        flags ==
            RatAdd(RatAdd(points(has("POTENTIAL_UNDERINSURANCE"),
                                 RiskScoreWeights.underinsurance),
                          points(has("HIGH_VARIANCE"), RiskScoreWeights.high_variance)),
                   RatAdd(points(has("POTENTIAL_OVERINSURANCE"),
                                 RiskScoreWeights.overinsurance),
                          RatAdd(points(has("MISSING_SQUARE_FOOTAGE")
                                            \/ has("MISSING_BUILDING_VALUE"),
                                        RiskScoreWeights.missing_data),
                                 points(has("HIGH_CONTENT_RATIO")
                                            \/ has("LOW_CONTENT_RATIO"),
                                        RiskScoreWeights.content_ratio))))
        age_score ==
            IF building_age > 0
            THEN RatMin(RatMul(Rat(building_age, 100), Whole(RiskScoreWeights.building_age)),
                        Whole(RiskScoreWeights.building_age))
            ELSE Whole(0)
        roof_score == RoofScore(roof_age)
        variance_score ==
            IF variance_percentage.num < 0
            THEN RatMin(RatDiv(RatAbs(variance_percentage), Whole(10)), Whole(10))
            ELSE Whole(0)
    IN  RatMin(RatAdd(RatAdd(flags, age_score), RatAdd(roof_score, variance_score)),
               Whole(100))

\* the age slip: the age factor is left out of the product
ReplacementCostNoAgeFactor(square_footage, base_cost_per_sqft, regional_multiplier, occupancy_factor, age_factor, sprinklered) ==
    RatMul(RatMul(RatMul(RatMul(
        Whole(square_footage), Whole(base_cost_per_sqft)),
        Rat(regional_multiplier, 100)),
        Rat(occupancy_factor, 100)),
        Rat(IF sprinklered THEN 95 ELSE 100, 100))

\* the replacement cost of line 517, the factors given in hundredths
ReplacementCost(square_footage, base_cost_per_sqft, regional_multiplier, occupancy_factor, age_factor, sprinklered) ==
    RatMul(RatMul(RatMul(RatMul(RatMul(
        Whole(square_footage), Whole(base_cost_per_sqft)),
        Rat(regional_multiplier, 100)),
        Rat(occupancy_factor, 100)),
        Rat(age_factor, 100)),
        Rat(IF sprinklered THEN 95 ELSE 100, 100))

\* the guard slip: the formula is used whatever the square footage
CalculatedValueAlwaysFormula(building_value, square_footage, replacement_cost) ==
    replacement_cost

\* calculated_value: the reported value when there is no square footage, else
\* the replacement cost
CalculatedValue(building_value, square_footage, replacement_cost) ==
    IF square_footage <= 0 THEN Whole(building_value) ELSE replacement_cost

UnknownText == <<"U", "n", "k", "n", "o", "w", "n">>

\* the calculation block left out of a valuation
NoCalculation == [given |-> FALSE]

\* one pass of the loop of run_sync: the valuation record of property_data, the
\* n-th of the call, in the year current_year; calculation_ref is the block the
\* earlier passes left behind
ValueProperty(property_data, current_year, n, calculation_ref) ==
    LET id == OrChain(property_data, <<"id", "property_id">>)
        address == ExtractAddress(property_data)
        building_value ==
            GetNumericValue(property_data,
                <<"building_value", "building_values", "value", "reported_value",
                  "building", "building_limit">>)
        square_footage ==
            GetNumericValue(property_data,
                <<"square_footage", "square_feet", "sq_ft", "sqft", "area",
                  "building_area", "total_area">>)
        content_value ==
            GetNumericValue(property_data,
                <<"contents", "content_value", "content", "contents_value",
                  "personal_property">>)
        business_income_value ==
            GetNumericValue(property_data,
                <<"business_income", "bi", "income", "business_interruption",
                  "time_element">>)
        construction_type ==
            ExtractValue(property_data,
                <<"construction", "construction_type", "building_class", "class",
                  "construction_class">>)
        year_built ==
            GetNumericValue(property_data,
                <<"year_built", "year", "built", "construction_year",
                  "year_of_construction">>)
        occupancy ==
            ExtractValue(property_data,
                <<"occupancy", "occupancy_type", "use", "building_use",
                  "class_description">>)
        sprinklered ==
            ExtractBoolean(property_data,
                <<"sprinklered", "sprinkler", "has_sprinklers", "fire_protection">>)
        roof_age == GetNumericValue(property_data, <<"roof_age", "roof_year", "roof">>)
        roof_type == ExtractValue(property_data, <<"roof_type", "roof">>)
        state == ExtractState(property_data, address)
        building_age == IF year_built > 0 THEN current_year - year_built ELSE 20
        matched_construction ==
            ConstructionCosts[FindClosestMatch(construction_type, ConstructionCosts)]
        matched_occupancy ==
            OccupancyFactors[FindClosestMatch(occupancy, OccupancyFactors)]
        calculated_value ==
            CalculatedValue(building_value, square_footage,
                ReplacementCost(square_footage, matched_construction.cost,
                                RegionalMultiplier(state), matched_occupancy.factor,
                                GetAgeFactor(building_age), sprinklered))
        new_ref ==
            IF square_footage <= 0 THEN calculation_ref
            ELSE [given |-> TRUE,
                  square_footage |-> square_footage,
                  base_cost_per_sqft |-> matched_construction.cost,
                  construction_type |-> matched_construction.name,
                  regional_multiplier |-> Rat(RegionalMultiplier(state), 100),
                  state |-> state,
                  occupancy_factor |-> Rat(matched_occupancy.factor, 100),
                  occupancy_type |-> matched_occupancy.name,
                  age_factor |-> Rat(GetAgeFactor(building_age), 100),
                  building_age |-> building_age,
                  sprinkler_factor |-> Rat(IF sprinklered THEN 95 ELSE 100, 100),
                  sprinklered |-> sprinklered]
        variance_percentage ==
            IF building_value > 0
            THEN RatMul(RatDiv(RatSub(calculated_value, Whole(building_value)),
                               Whole(building_value)), Whole(100))
            ELSE Whole(0)
        risk_flags ==
            (IF square_footage <= 0 THEN <<"MISSING_SQUARE_FOOTAGE">>
             ELSE IdentifyRiskFlags(building_value, calculated_value, square_footage,
                                    building_age, content_value, roof_age))
            \o Flag(building_value <= 0 /\ square_footage > 0, "MISSING_BUILDING_VALUE")
    IN  [property_id |-> IF Truthy(id) THEN id ELSE Str(PropText \o NumText(n)),
         address |-> address,
         reported_value |-> building_value,
         calculated_value |-> calculated_value,
         variance_percentage |-> variance_percentage,
         risk_flags |-> risk_flags,
         risk_score |->
            CalculateRiskScore(risk_flags, variance_percentage, building_age, roof_age),
         details |->
            [square_footage |-> square_footage,
             construction_type |->
                IF square_footage <= 0 THEN UnknownText ELSE matched_construction.name,
             year_built |-> IF year_built > 0 THEN Num(year_built) ELSE None,
             building_age |-> building_age,
             occupancy |->
                IF square_footage <= 0 THEN UnknownText ELSE matched_occupancy.name,
             state |-> state,
             content_value |-> content_value,
             business_income_value |-> business_income_value,
             sprinklered |-> sprinklered,
             roof_age |-> IF roof_age > 0 THEN Num(roof_age) ELSE None,
             roof_type |-> roof_type],
         calculation |-> new_ref]

----------------------------------------------------------------------------
(* PropertyValuationTool: run_sync *)

\* the loop of run_sync over the properties from the n-th on; acc holds the
\* valuations so far and the calculation block the last pass left behind
RECURSIVE ValueProperties(_, _, _, _)
ValueProperties(properties, current_year, n, acc) ==
    IF n > Len(properties) THEN acc.valuations
    ELSE LET valuation ==
                 ValueProperty(properties[n], current_year, Len(acc.valuations) + 1,
                               acc.calculation_ref)
         IN  ValueProperties(properties, current_year, n + 1,
                 [valuations |-> Append(acc.valuations, valuation),
                  calculation_ref |-> valuation.calculation])

\* sum(values) of a list of fractions
RECURSIVE RatSum(_)
RatSum(values) ==
    IF values = <<>> THEN Whole(0)
    ELSE RatAdd(Head(values), RatSum(Tail(values)))

\* list.sort(key=risk_score, reverse=True): highest score first, entries of
\* equal score in their order of arrival
RECURSIVE SortByRiskScore(_)
SortByRiskScore(items) ==
    IF items = <<>> THEN <<>>
    ELSE LET top == CHOOSE i \in DOMAIN items :
                       /\ \A j \in DOMAIN items :
                              ~RatLt(items[i].risk_score, items[j].risk_score)
                       /\ \A j \in 1..(i - 1) :
                              RatLt(items[j].risk_score, items[i].risk_score)
         IN  <<items[top]>>
                 \o SortByRiskScore(SubSeq(items, 1, top - 1)
                                        \o SubSeq(items, top + 1, Len(items)))

\* _get_valuation_quality(variance_percentage, anomaly_count, total_count)
GetValuationQuality(variance_percentage, anomaly_count, total_count) ==
    LET anomaly_ratio == Rat(anomaly_count, total_count)
        within(v, r) == /\ RatLt(RatAbs(variance_percentage), Whole(v))
                        /\ RatLt(anomaly_ratio, Rat(r, 10))
    IN  IF total_count = 0 THEN "Unknown"
        ELSE IF within(10, 1) THEN "Excellent"
        ELSE IF within(15, 2) THEN "Good"
        ELSE IF within(25, 3) THEN "Fair"
        ELSE "Poor"

\* the message slip: the failure result carries no message
ValuationErrorNoMessage(transaction_id, error) ==
    [analysis_summary |-> <<>>, property_valuations |-> <<>>, anomalies |-> <<>>,
     total_valuation |-> <<>>, transaction_id |-> transaction_id]

\* the result of run_sync for a failure before the analysis, or for an
\* exception caught at line 658
ValuationError(transaction_id, error) ==
    [analysis_summary |-> <<>>, property_valuations |-> <<>>, anomalies |-> <<>>,
     total_valuation |-> <<>>, transaction_id |-> transaction_id, error |-> error]

\* the result of run_sync when the submission holds no property
NoPropertyData(transaction_id) ==
    [analysis_summary |->
        [total_properties |-> 0, properties_with_risk_flags |-> 0,
         overall_variance_percentage |-> Whole(0), avg_property_value |-> Whole(0),
         valuation_quality |-> "Unknown", total_building_value |-> Whole(0),
         total_content_value |-> Whole(0), total_business_income_value |-> Whole(0),
         insurance_to_value_ratio |-> Whole(0)],
     property_valuations |-> <<>>,
     anomalies |-> <<>>,
     total_valuation |->
        [reported_total |-> Whole(0), calculated_total |-> Whole(0),
         variance_percentage |-> Whole(0), variance_amount |-> Whole(0),
         insurance_to_value_ratio |-> Whole(0)],
     transaction_id |-> transaction_id,
     error |-> "no_property_data"]

\* the anomalies, totals and summary of the valuations (lines 604-656)
Summarize(transaction_id, property_valuations) ==
    LET all_anomalies ==
            SortByRiskScore(SelectSeq(property_valuations,
                LAMBDA v : Len(v.risk_flags) > 0 \/ ~RatLt(v.risk_score, Whole(50))))
        reported_total ==
            RatSum([i \in DOMAIN property_valuations |->
                       Whole(property_valuations[i].reported_value)])
        calculated_total ==
            RatSum([i \in DOMAIN property_valuations |->
                       property_valuations[i].calculated_value])
        total_content_value ==
            RatSum([i \in DOMAIN property_valuations |->
                       Whole(property_valuations[i].details.content_value)])
        total_business_income_value ==
            RatSum([i \in DOMAIN property_valuations |->
                       Whole(property_valuations[i].details.business_income_value)])
        total_variance_percentage ==
            IF reported_total.num > 0
            THEN RatMul(RatDiv(RatSub(calculated_total, reported_total), reported_total),
                        Whole(100))
            ELSE Whole(0)
        insurance_to_value_ratio ==
            IF reported_total.num > 0
            THEN RatMul(RatDiv(reported_total, calculated_total), Whole(100))
            ELSE Whole(0)
    IN  IF reported_total.num > 0 /\ calculated_total.num = 0
        THEN ValuationError(transaction_id, "error_during_analysis")
        ELSE [analysis_summary |->
                [total_properties |-> Len(property_valuations),
                 properties_with_risk_flags |-> Len(all_anomalies),
                 overall_variance_percentage |-> total_variance_percentage,
                 avg_property_value |->
                    RatDiv(reported_total, Whole(Len(property_valuations))),
                 valuation_quality |->
                    GetValuationQuality(total_variance_percentage, Len(all_anomalies),
                                        Len(property_valuations)),
                 total_building_value |-> reported_total,
                 total_content_value |-> total_content_value,
                 total_business_income_value |-> total_business_income_value,
                 insurance_to_value_ratio |-> insurance_to_value_ratio],
              property_valuations |-> property_valuations,
              anomalies |-> all_anomalies,
              total_valuation |->
                [reported_total |-> reported_total,
                 calculated_total |-> calculated_total,
                 variance_percentage |-> total_variance_percentage,
                 variance_amount |-> RatSub(calculated_total, reported_total),
                 insurance_to_value_ratio |-> insurance_to_value_ratio],
              transaction_id |-> transaction_id]

\* the result of run_sync for a list of properties that is not empty
ValuationReport(transaction_id, properties, current_year) ==
    Summarize(transaction_id,
              ValueProperties(properties, current_year, 1,
                              [valuations |-> <<>>, calculation_ref |-> NoCalculation]))

\* run_sync from line 415 on: the valuation of the extracted properties
ValueExtracted(transaction_id, extracted, current_year) ==
    IF ~extracted.ok THEN ValuationError(transaction_id, "error_during_analysis")
    ELSE IF extracted.properties = <<>> THEN NoPropertyData(transaction_id)
    ELSE ValuationReport(transaction_id, extracted.properties, current_year)

\* PropertyValuationTool.run_sync({"transaction_id": ...}); `fetched` is what
\* _fetch_submission_data returns for the id ({} when the store has no such
\* document) and current_year what datetime.now().year gives
ValuationToolRunSync(transaction_id, fetched, current_year) ==
    IF transaction_id = "" THEN ValuationError("", "no_transaction_id")
    ELSE IF ~Truthy(fetched) THEN ValuationError(transaction_id, "no_submission_data")
    ELSE ValueExtracted(transaction_id, ExtractPropertiesFromSubmission(fetched),
                        current_year)

----------------------------------------------------------------------------
(* Inputs *)

\* all sequences over S of length at most n
RECURSIVE SeqsUpTo(_, _)
SeqsUpTo(S, n) ==
    IF n = 0 THEN {<<>>}
    ELSE LET shorter == SeqsUpTo(S, n - 1)
         IN  shorter \cup {Append(q, x) : q \in shorter, x \in S}

\* the sequences of SeqsUpTo(S, n) that repeat no entry
DistinctSeqsUpTo(S, n) ==
    {q \in SeqsUpTo(S, n) : \A i, j \in DOMAIN q : i # j => q[i] # q[j]}

\* a {"value": ..., "score": ...} node; Absent leaves the key out
Node(value, score) == Obj(<< <<"value", value>>, <<"score", score>> >>)

\* a submission document in the layout the default field mapping reads
MkSubmission(company_name, website, naics, legal_entity_type, limit) ==
    Obj(<< <<"submission_data",
        Obj(<< <<"Common",
            Obj(<< <<"Firmographics",
                     Obj(<< <<"company_name", company_name>>,
                            <<"website", website>>,
                            <<"primary_naics_2017", naics>> >>)>>,
                   <<"Legal_Entity_Type", legal_entity_type>>,
                   <<"Limits and Coverages",
                     Obj(<< <<"100_pct_limit", limit>> >>)>> >>)>> >>)>> >>)

\* documents and paths for get_value_from_path
PathRoots ==
    {Obj(<< <<"a", Obj(<< <<"b", Str(Acme)>>,
                          <<"a", List(<<Str(LLC), Obj(<< <<"b", Num(0)>> >>)>>)>> >>)>>,
            <<"b", None>> >>),
     List(<<Str(Acme), Obj(<< <<"a", Str(LLC)>> >>), List(<<Num(7)>>)>>),
     Str(Acme),
     Num(0),
     None,
     Obj(<<>>)}

PathSegments == {K("a"), K("b"), I(0), I(1), I(0 - 1)}

PathLists == SeqsUpTo(PathSegments, MaxPathLen)

\* values a mapped node can hold
ValueSamples ==
    {Absent, None, Str(<<>>), Str(Blank), Str(Acme), Num(0), Num(5), Bool(FALSE),
     List(<<>>), List(<<Str(Acme)>>), Obj(<<>>), Obj(<< <<"k", Num(1)>> >>),
     Obj(<< <<"limit", Obj(<<>>)>> >>)}

\* values a "score" key can hold
ScoreSamples ==
    {Absent, None, Str(<<>>), Str(ScoreText95), Str(ScoreTextPadded85), Str(ScoreTextNA),
     Num(85), Num(0), Bool(TRUE), List(<<Num(90)>>), Obj(<< <<"k", Num(1)>> >>)}

NaicsSamples ==
    {Absent, List(<<>>), List(<<Obj(<< <<"code", Str(NaicsCode)>> >>)>>), Str(NaicsCode)}

\* documents for the per-element operations
ElementDocs ==
    {MkSubmission(Node(v, sc), Absent, Absent, Absent, Absent) :
        v \in ValueSamples, sc \in ScoreSamples}
    \cup {MkSubmission(v, Absent, Absent, Absent, Absent) : v \in ValueSamples}
    \cup {MkSubmission(Absent, Absent, n, v, v) : n \in NaicsSamples, v \in ValueSamples}
    \cup {List(<<Str(Acme)>>), Str(Acme), None,
          Obj(<< <<"submission_data", Str(Acme)>> >>)}

ElementNames == DOMAIN DefaultFieldMapping \cup {"unmapped_element"}

\* documents for a whole analysis
AnalysisDocs ==
    {MkSubmission(cn, web, Absent, let, Absent) :
        cn \in {Absent, Node(Str(Acme), Str(ScoreText95)), Node(Str(Acme), Num(85)),
                Node(Str(Acme), Absent)},
        web \in {Absent, Node(Str(Url), Str(ScoreText95)), Node(Str(Url), Num(60))},
        let \in {Absent, Str(LLC)}}
    \cup {MkSubmission(Node(Str(Acme), Str(ScoreText95)),
                       Node(Str(Url), Str(ScoreText95)),
                       List(<<Obj(<< <<"code", Str(NaicsCode)>> >>)>>),
                       Str(LLC),
                       Obj(<< <<"limit", Obj(<<>>)>> >>)),
          None, Obj(<<>>), List(<<>>), Str(Acme), List(<<Str(Acme)>>),
          Obj(<< <<"submission_data", Str(Acme)>> >>)}

ReqElements == {"company_name", "website", "legal_entity_type"}

ClearanceLists ==
    {<<>>, <<"company_name">>, <<"legal_entity_type", "company_name">>,
     <<"unmapped_element">>}

\* the "config" a caller passes to run_sync
UserConfigs ==
    {<<>>}
    \cup {[triage_elements |-> t, appetite_elements |-> a, clearance_elements |-> c] :
            t \in DistinctSeqsUpTo(ReqElements, MaxReq),
            a \in DistinctSeqsUpTo(ReqElements, MaxReq),
            c \in ClearanceLists}
    \cup {[high_quality_threshold |-> Num(95), good_quality_threshold |-> Str(ScoreTextPadded85)],
          [high_quality_threshold |-> Num(60)],
          [good_quality_threshold |-> Str(ScoreTextNA)],
          [high_quality_threshold |-> Num(85), good_quality_threshold |-> None]}
    \cup {[field_mapping |->
              [e \in {"website"} |->
                  <<K("submission_data"), K("Common"), K("Legal_Entity_Type")>>]],
          [field_mapping |->
              [e \in {"unmapped_element"} |->
                  <<K("submission_data"), K("Common"), K("Firmographics"),
                    K("company_name"), K("value")>>],
           clearance_elements |-> <<"unmapped_element">>]}

NaicsDesc == <<"L", "a", "w">>

\* a submission document in the layout the checker's field mappings read
MkChkDoc(company_name, website, naics, legal_entity_type) ==
    Obj(<< <<"Common",
             Obj(<< <<"Firmographics",
                      Obj(<< <<"company_name", company_name>>,
                             <<"website", website>>,
                             <<"primary_naics_2017", naics>> >>)>>,
                    <<"Legal_Entity_Type", legal_entity_type>> >>)>> >>)

\* what the document store returns for the transaction id
ChkDocs ==
    {MkChkDoc(cn, web, naics, let) :
        cn \in {Absent, Node(Str(Acme), Str(ScoreText95)), Node(Str(Acme), Absent),
                Node(Str(Acme), Num(60)), Node(Str(<<>>), Str(ScoreText95)), Str(Acme)},
        web \in {Absent, Node(Str(Url), Str(ScoreText95)), Node(Str(Url), Str(ScoreTextNA))},
        naics \in {Absent,
                   Node(List(<<Obj(<< <<"naics_desc", Str(NaicsDesc)>>,
                                      <<"code", Str(NaicsCode)>> >>)>>), Num(85))},
        let \in {Absent, Str(LLC)}}
    \cup {Obj(<<>>), List(<<Str(Acme)>>), Obj(<< <<"Common", Str(Acme)>> >>)}

ModEntries ==
    {[field_name |-> f, value |-> v] :
        f \in {"company_name", "website"}, v \in {Str(Url), Num(5), Str(<<>>)}}
    \cup {[field_name |-> "other_field", value |-> Str(Url)],
          [field_name |-> "primary_naics_2017", value |-> Str(NaicsCode)]}

\* the user_modifications a caller passes
UserModifications ==
    {NoMods}
    \cup {Mods(q) : q \in {r \in SeqsUpTo(ModEntries, MaxMods) :
                              \A i, j \in DOMAIN r :
                                  i # j => r[i].field_name # r[j].field_name}}

\* the class-level tables a run reads: the ones of the source, and edits of
\* them of the kinds its configuration guide describes
ChkTables ==
    {[required |-> ChkRequiredElements, mappings |-> ChkFieldMappings],
     [required |-> ChkRequiredElements \o ChkPolicyElements,
      mappings |-> ChkPolicyMappings],
     [required |-> <<[field_name |-> "legal_entity_type", categories |-> <<"T">>],
                     [field_name |-> "company_name", categories |-> <<"C", "T">>]>>,
      mappings |-> ChkFieldMappings],
     [required |-> <<[field_name |-> "website", categories |-> <<"T", "Required">>],
                     [field_name |-> "other_field", categories |-> <<"A">>]>>,
      mappings |-> ChkFieldMappings]}

\* field mappings with more than one path for a field
MultiPathMappings ==
    {[f \in {"company_name"} |-> ps] :
        ps \in SeqsUpTo({<<"Common", "Firmographics", "company_name">>,
                         <<"Common", "Firmographics", "website">>,
                         <<"Common", "Legal_Entity_Type">>}, MaxPaths)}

\* most records of the "Property" section of a modelled document
MaxStd == 2

\* most records of the "Advanced Property" section of a modelled document
MaxAdv == 2

MainSt == <<"1", " ", "M", "a", "i", "n", " ", "S", "t">>

MainStLower == <<"1", " ", "m", "a", "i", "n", " ", "s", "t", ".">>

MainRd == <<"1", " ", "M", "a", "i", "n", " ", "R", "d">>

OakAv == <<"2", " ", "O", "a", "k", " ", "A", "v">>

Frame == <<"F", "r", "a", "m", "e">>

Masonry == <<"M", "a", "s", "o", "n", "r", "y">>

\* one item of a section: its facts under the section's facts key
FactsItem(name, pairs) == Obj(<< <<name, Obj(pairs)>> >>)

\* items of the "Property" section: with a document id, with the same address
\* in another spelling and an empty construction type, without facts, with a
\* location id, and with an address that is not text
StandardItems ==
    {FactsItem("standard_facts",
               << <<"location_address", Node(Str(MainSt), Num(90))>>,
                  <<"location_doc_id", Str(<<"1">>)>>,
                  <<"construction_type", Str(Frame)>>,
                  <<"year_built", Num(0)>> >>),
     FactsItem("standard_facts",
               << <<"location_address", Str(MainStLower)>>,
                  <<"construction_type", Str(<<>>)>> >>),
     FactsItem("standard_facts", <<>>),
     FactsItem("standard_facts",
               << <<"location_id", Str(<<"L", "O", "C", "7">>)>>,
                  <<"location_address", Str(OakAv)>> >>),
     FactsItem("standard_facts", << <<"location_address", Num(5)>> >>)}

\* items of the "Advanced Property" section: one per matching rule, one that
\* no rule matches by its content, and two on which the merge raises
AdvancedItems ==
    {FactsItem("advanced_facts",
               << <<"location_id", Str(<<"L", "O", "C", "1">>)>>,
                  <<"location_address", Str(OakAv)>>,
                  <<"construction_type", Str(Masonry)>>,
                  <<"total_building_area_sqft", Num(5000)>> >>),
     FactsItem("advanced_facts",
               << <<"location_id", Str(<<"L", "O", "C", "7">>)>>,
                  <<"location_address", Str(MainSt)>> >>),
     FactsItem("advanced_facts",
               << <<"location_address", Str(MainStLower)>>,
                  <<"construction_type", Str(Masonry)>>,
                  <<"year_built", Num(1990)>> >>),
     FactsItem("advanced_facts", << <<"location_address", Str(MainRd)>> >>),
     FactsItem("advanced_facts", <<>>),
     FactsItem("advanced_facts", << <<"location_id", Num(3)>> >>),
     FactsItem("advanced_facts", << <<"location_address", Num(5)>> >>)}

\* items of the "Property" section that share an address and differ in the
\* rest, for the deduplication
DuplicateItems ==
    {FactsItem("standard_facts",
               << <<"location_address", Str(MainSt)>>,
                  <<"building_value", Num(1000000)>>,
                  <<"square_footage", Num(5000)>>,
                  <<"year_built", Num(1990)>>,
                  <<"construction_type", Str(Frame)>> >>),
     FactsItem("standard_facts",
               << <<"location_address", Str(MainSt)>>,
                  <<"building_value", Num(500000)>>,
                  <<"construction_type", Str(Masonry)>>,
                  <<"contents", Num(100000)>> >>),
     FactsItem("standard_facts", << <<"location_address", Str(MainSt)>> >>),
     FactsItem("standard_facts",
               << <<"location_address", Str(MainSt)>>,
                  <<"square_footage", Num(-500)>> >>),
     FactsItem("standard_facts",
               << <<"location_address", Str(MainSt)>>,
                  <<"building_value", Num(2000000)>>,
                  <<"square_footage", Num(0)>>,
                  <<"year_built", Num(2005)>>,
                  <<"construction_type", Str(<<>>)>>,
                  <<"sprinklered", Str(<<"Y", "e", "s">>)>> >>),
     FactsItem("standard_facts",
               << <<"location_address", Str(OakAv)>>,
                  <<"building_value", Num(500000)>>,
                  <<"square_footage", Num(5000)>>,
                  <<"construction_type", Str(Masonry)>> >>)}

\* the items that carry a text address and another fact: the matching rules
\* and the field merge have something to decide on them
TellingItem(item) ==
    \E section \in DOMAIN item.d :
        /\ "location_address" \in DOMAIN item.d[section].d
        /\ item.d[section].d["location_address"].t # "num"
        /\ Cardinality(DOMAIN item.d[section].d) > 1

\* the lists of at most two of the items
ShortLists(items) ==
    {<<>>} \cup {<<a>> : a \in items} \cup {<<a, b>> : a, b \in items}

SectionsDoc(std, adv) ==
    Obj(<< <<"Property", List(std)>>, <<"Advanced Property", List(adv)>> >>)

\* documents with the two property sections: every pair of lists of at most two
\* items, the longer lists of the items with an address and another fact, and
\* the lists of items that share an address
MergeDocs ==
    {SectionsDoc(std, adv) :
        std \in SeqsUpTo({item \in StandardItems : TellingItem(item)}, MaxStd),
        adv \in SeqsUpTo({item \in AdvancedItems : TellingItem(item)}, MaxAdv)}
        \cup {SectionsDoc(std, adv) :
                 std \in ShortLists(StandardItems), adv \in ShortLists(AdvancedItems)}
        \cup {SectionsDoc(std, <<>>) : std \in SeqsUpTo(DuplicateItems, MaxStd)}
        \cup {None, Obj(<< <<"Property", Str(MainSt)>> >>)}

\* one item of the "Property" section as an intake document holds it; Absent
\* leaves a fact out
ValuedItem(address, building_value, square_footage, year_built, construction_type, occupancy, state, sprinklered, contents) ==
    Obj(<< <<"standard_facts",
             Obj(<< <<"location_address", address>>,
                    <<"total_building_area_sqft", square_footage>>,
                    <<"year_built", year_built>>,
                    <<"construction_type", construction_type>>,
                    <<"location_occupancy_description", occupancy>>,
                    <<"location_state", state>>,
                    <<"location_have_sprinklers", sprinklered>> >>)>>,
           <<"limits",
             Obj(<< <<"100_pct_limit", building_value>>,
                    <<"100_pct_coverage_limits",
                      Obj(<< <<"Contents", contents>> >>)>> >>)>> >>)

YearSamples == {Absent, Num(2020), Num(2005), Num(1990), Num(1960), Num(1900)}

ConstructionSamples == {Absent, Str(Frame), Str(<<"m", "a", "s", "o", "n", "r", "y">>)}

OccupancySamples == {Absent, Str(<<"R", "e", "t", "a", "i", "l">>), Str(<<"B", "i", "g", " ", "W", "a", "r", "e", "h", "o", "u", "s", "e">>)}

StateSamples == {Absent, Str(<<"I", "L">>), Str(<<"c", "a">>), Str(<<"M", "i", "c", "h", "i", "g", "a", "n">>)}

SprinkleredSamples == {Absent, Str(<<"Y", "e", "s">>)}

\* properties with a square footage, for the cost formula
FormulaItems ==
    {ValuedItem(Str(MainSt), Node(Num(1000000), Num(95)), sq, year, construction,
                occupancy, state, sprinklered, Absent) :
        sq \in {Num(10000), Str(<<"2", "0", ",", "0", "0", "0">>)}, year \in YearSamples,
        construction \in ConstructionSamples, occupancy \in OccupancySamples,
        state \in StateSamples, sprinklered \in SprinkleredSamples}

\* properties without a usable square footage
NoFootageItems ==
    {ValuedItem(Str(MainSt), bv, sq, year, construction, occupancy, state, sprinklered,
                Absent) :
        bv \in {Absent, Num(1000000)},
        sq \in {Absent, Num(0), Num(-500), Str(<<"n", "/", "a">>)},
        year \in {Absent, Num(1990), Num(1900)},
        construction \in {Absent, Str(<<"m", "a", "s", "o", "n", "r", "y">>)},
        occupancy \in {Absent, Str(<<"R", "e", "t", "a", "i", "l">>)},
        state \in {Absent, Str(<<"c", "a">>)}, sprinklered \in SprinkleredSamples}

\* properties with reported values above and below the calculated one
ReportedItems ==
    {ValuedItem(Str(address), bv, sq, year, Absent, Absent, Absent, Absent, contents) :
        address \in {MainSt, OakAv},
        bv \in {Absent, Num(1000000), Str(<<"$", "2", ",", "0", "0", "0", ",", "0", "0", "0">>), Num(500000)},
        sq \in {Absent, Num(10000)}, year \in {Absent, Num(1960)},
        contents \in {Absent, Num(900000), Num(100000)}}

\* a property with contents and a business income
IncomeItem ==
    Obj(<< <<"standard_facts",
             Obj(<< <<"location_address", Str(OakAv)>>,
                    <<"total_building_area_sqft", Num(10000)>>,
                    <<"business_income", Num(50000)>> >>)>>,
           <<"limits",
             Obj(<< <<"100_pct_limit", Num(1000000)>>,
                    <<"100_pct_coverage_limits",
                      Obj(<< <<"Contents", Num(100000)>> >>)>> >>)>> >>)

\* properties of the documents that hold several
PortfolioItems ==
    {ValuedItem(Str(address), bv, sq, Absent, Absent, Absent, Absent, Absent, Absent) :
        address \in {MainSt, OakAv}, bv \in {Absent, Num(1000000)},
        sq \in {Absent, Num(10000)}}
        \cup {IncomeItem}

\* properties with a roof age, built long ago or after the current year, whose
\* reported value is far below, a little above and far above the calculated one
RiskItems ==
    {Obj(<< <<"standard_facts",
              Obj(<< <<"location_address", Str(MainSt)>>,
                     <<"total_building_area_sqft", Num(10000)>>,
                     <<"year_built", year>>, <<"roof_age", roof>> >>)>>,
            <<"limits", Obj(<< <<"100_pct_limit", bv>> >>)>> >>) :
        bv \in {Num(500000), Num(1780000), Num(3000000)},
        year \in {Absent, Num(1900), Num(2030)},
        roof \in {Absent, Num(10), Num(30), Num(-5)}}

PropertyDoc(items) == Obj(<< <<"Property", List(items)>> >>)

\* what _fetch_submission_data returns: nothing, something that is not a
\* mapping, a mapping without properties, a property whose address is not
\* text, and documents with properties
ValuationDocs ==
    {PropertyDoc(<<item>>) : item \in FormulaItems \cup NoFootageItems \cup ReportedItems \cup RiskItems}
        \cup {PropertyDoc(items) : items \in SeqsUpTo(PortfolioItems, MaxStd)}
        \cup {None, Obj(<<>>), Str(MainSt), List(<<Num(1)>>),
              Obj(<< <<"Common", Obj(<<>>)>> >>),
              PropertyDoc(<<FactsItem("standard_facts",
                                      << <<"location_address", Num(5)>> >>)>>)}

\* the years datetime.now().year gives
CurrentYears == {2026, 2031}

----------------------------------------------------------------------------
(* InsuranceSubmissionAnalyzer: add_required_element, remove_required_element *)

\* the names category.lower() is compared with
CategoryTexts ==
    [triage |-> <<"t", "r", "i", "a", "g", "e">>,
     appetite |-> <<"a", "p", "p", "e", "t", "i", "t", "e">>,
     clearance |-> <<"c", "l", "e", "a", "r", "a", "n", "c", "e">>]

\* the append slip: the element is appended whether the list holds it or not
AppendedAlways(elements, element) == Append(elements, element)

\* the list after `if element not in elements: elements.append(element)`
Appended(elements, element) ==
    IF element \in Range(elements) THEN elements ELSE Append(elements, element)

\* the list after `if element in elements: elements.remove(element)`; remove
\* takes out the first occurrence
Removed(elements, element) ==
    IF element \notin Range(elements) THEN elements
    ELSE LET first == CHOOSE i \in DOMAIN elements :
                          /\ elements[i] = element
                          /\ \A j \in 1..(i - 1) : elements[j] # element
         IN  SubSeq(elements, 1, first - 1) \o SubSeq(elements, first + 1, Len(elements))

\* what a call returns: None, or the ValueError it raises for a category that
\* is none of the three
UnknownCategory == [raised |-> "ValueError"]

CategoryOutcome(category) ==
    IF Lower(category) \in Range(<<CategoryTexts.triage, CategoryTexts.appetite, CategoryTexts.clearance>>) THEN None
    ELSE UnknownCategory

----------------------------------------------------------------------------
(* Initial state and operations *)

Init ==
    /\ op = "idle"
    /\ args = <<>>
    /\ ret = None
    /\ high_quality_threshold = DefaultConfig.high_quality_threshold
    /\ good_quality_threshold = DefaultConfig.good_quality_threshold
    /\ triage_elements = DefaultConfig.triage_elements
    /\ appetite_elements = DefaultConfig.appetite_elements
    /\ clearance_elements = DefaultConfig.clearance_elements
    /\ field_mapping = DefaultConfig.field_mapping

\* analyzer.get_value_from_path(data, path_list)
GetValueFromPathOp ==
    /\ op = "idle"
    /\ \E data \in PathRoots, path_list \in PathLists :
        /\ op' = "get_value_from_path"
        /\ args' = [data |-> data, path_list |-> path_list]
        /\ ret' = GetValueFromPath(data, path_list)
    /\ UNCHANGED analyzer_vars

\* analyzer.is_element_present(data, element)
IsElementPresentOp ==
    /\ op = "idle"
    /\ \E data \in ElementDocs, element \in ElementNames :
        /\ op' = "is_element_present"
        /\ args' = [data |-> data, element |-> element]
        /\ ret' = IsElementPresent(field_mapping, data, element)
    /\ UNCHANGED analyzer_vars

\* analyzer.get_accuracy_score(data, element)
GetAccuracyScoreOp ==
    /\ op = "idle"
    /\ \E data \in ElementDocs, element \in ElementNames :
        \E call \in {GetAccuracyScoreCall(field_mapping, data, element)} :
            /\ op' = "get_accuracy_score"
            /\ args' = [data |-> data, element |-> element]
            /\ ret' = call.score
            /\ field_mapping' = call.field_mapping
    /\ UNCHANGED <<high_quality_threshold, good_quality_threshold, triage_elements,
                   appetite_elements, clearance_elements>>

\* InsuranceSubmissionAnalyzerTool.run_sync({"submission_data": ..., "config": ...})
AnalyzerRunSync ==
    /\ op = "idle"
    /\ \E submission_data \in AnalysisDocs, user_config \in UserConfigs :
        \E run \in {AnalyzerToolRunSync(submission_data, user_config)} :
            /\ op' = "analyzer_run_sync"
            /\ args' = [submission_data |-> submission_data, config |-> user_config]
            /\ ret' = run.result
            /\ high_quality_threshold' = run.cfg.high_quality_threshold
            /\ good_quality_threshold' = run.cfg.good_quality_threshold
            /\ triage_elements' = run.cfg.triage_elements
            /\ appetite_elements' = run.cfg.appetite_elements
            /\ clearance_elements' = run.cfg.clearance_elements
            /\ field_mapping' = run.cfg.field_mapping

\* SubmissionCompletenessChecker.run_sync(transaction_id, user_modifications)
CheckerRunSync ==
    /\ op = "idle"
    /\ \E tables \in ChkTables, transaction_id \in {"", "tx-1"}, fetched \in ChkDocs,
          user_modifications \in UserModifications :
        /\ op' = "checker_run_sync"
        /\ args' = [required_elements |-> tables.required,
                    field_mappings |-> tables.mappings,
                    transaction_id |-> transaction_id,
                    fetched |-> fetched,
                    user_modifications |-> user_modifications]
        /\ ret' = CheckerToolRunSync(tables.required, tables.mappings, transaction_id,
                                     fetched, user_modifications)
    /\ UNCHANGED analyzer_vars

\* checker._extract_field_value(submission_data, field_name)
ExtractFieldValueOp ==
    /\ op = "idle"
    /\ \E mappings \in MultiPathMappings \cup {ChkFieldMappings}, data \in ChkDocs,
          field_name \in {"company_name", "naics_desc", "other_field"} :
        /\ op' = "extract_field_value"
        /\ args' = [field_mappings |-> mappings, data |-> data, field_name |-> field_name]
        /\ ret' = ExtractFieldValue(mappings, data, field_name)
    /\ UNCHANGED analyzer_vars

\* checker._apply_user_modifications(submission_data, modifications)
ApplyUserModificationsOp ==
    /\ op = "idle"
    /\ \E mappings \in MultiPathMappings \cup {ChkFieldMappings}, data \in ChkDocs,
          user_modifications \in UserModifications :
        /\ op' = "apply_user_modifications"
        /\ args' = [field_mappings |-> mappings, submission_data |-> data,
                    modifications |-> user_modifications.entries]
        /\ ret' = ApplyUserModificationsCall(mappings, data, user_modifications.entries)
    /\ UNCHANGED analyzer_vars

\* tool._extract_properties_from_submission(submission_data)
ExtractPropertiesOp ==
    /\ op = "idle"
    /\ \E submission_data \in MergeDocs :
        /\ op' = "extract_properties"
        /\ args' = [submission_data |-> submission_data]
        /\ ret' = ExtractPropertiesFromSubmission(submission_data)
    /\ UNCHANGED analyzer_vars

\* PropertyValuationTool.run_sync({"transaction_id": ...})
ValuationRunSync ==
    /\ op = "idle"
    /\ \E transaction_id \in {"", "tx-1"}, fetched \in ValuationDocs,
          current_year \in CurrentYears :
        /\ op' = "valuation_run_sync"
        /\ args' = [transaction_id |-> transaction_id, fetched |-> fetched,
                    current_year |-> current_year]
        /\ ret' = ValuationToolRunSync(transaction_id, fetched, current_year)
    /\ UNCHANGED analyzer_vars

\* most elements a list of required elements holds in the model
MaxElements == 7

\* the category names a caller passes
CategoryNames ==
    {CategoryTexts.triage, <<"A", "p", "p", "e", "t", "i", "t", "e">>,
     <<"C", "L", "E", "A", "R", "A", "N", "C", "E">>,
     <<"p", "r", "o", "p", "e", "r", "t", "y">>, <<>>}

\* the elements a caller names: one that every default list holds and one
\* that none holds
RequiredElementNames == {"company_name", "naics_year"}

\* the calls are made on one analyzer, one after the other
ConfigurationOpen ==
    /\ op \in {"idle", "add_required_element", "remove_required_element"}
    /\ \A list \in {triage_elements, appetite_elements, clearance_elements} :
            Len(list) < MaxElements

\* InsuranceSubmissionAnalyzer.add_required_element(category, element)
AddRequiredElement ==
    /\ ConfigurationOpen
    /\ \E category \in CategoryNames, element \in RequiredElementNames :
        /\ op' = "add_required_element"
        /\ args' = [category |-> category, element |-> element]
        /\ triage_elements' =
                IF Lower(category) = CategoryTexts.triage
                THEN Appended(triage_elements, element) ELSE triage_elements
        /\ appetite_elements' =
                IF Lower(category) = CategoryTexts.appetite
                THEN Appended(appetite_elements, element) ELSE appetite_elements
        /\ clearance_elements' =
                IF Lower(category) = CategoryTexts.clearance
                THEN Appended(clearance_elements, element) ELSE clearance_elements
        /\ ret' = CategoryOutcome(category)
    /\ UNCHANGED <<high_quality_threshold, good_quality_threshold, field_mapping>>

\* InsuranceSubmissionAnalyzer.remove_required_element(category, element)
RemoveRequiredElement ==
    /\ ConfigurationOpen
    /\ \E category \in CategoryNames, element \in RequiredElementNames :
        /\ op' = "remove_required_element"
        /\ args' = [category |-> category, element |-> element]
        /\ triage_elements' =
                IF Lower(category) = CategoryTexts.triage
                THEN Removed(triage_elements, element) ELSE triage_elements
        /\ appetite_elements' =
                IF Lower(category) = CategoryTexts.appetite
                THEN Removed(appetite_elements, element) ELSE appetite_elements
        /\ clearance_elements' =
                IF Lower(category) = CategoryTexts.clearance
                THEN Removed(clearance_elements, element) ELSE clearance_elements
        /\ ret' = CategoryOutcome(category)
    /\ UNCHANGED <<high_quality_threshold, good_quality_threshold, field_mapping>>

SpecPath == Init /\ [][GetValueFromPathOp]_vars

SpecElement == Init /\ [][IsElementPresentOp \/ GetAccuracyScoreOp]_vars

SpecAnalyzer == Init /\ [][AnalyzerRunSync]_vars

SpecChecker == Init /\ [][CheckerRunSync]_vars

SpecExtract == Init /\ [][ExtractFieldValueOp]_vars

SpecApply == Init /\ [][ApplyUserModificationsOp]_vars

SpecMerge == Init /\ [][ExtractPropertiesOp]_vars

SpecValuation == Init /\ [][ValuationRunSync]_vars

SpecRunSync ==
    Init /\ [][AnalyzerRunSync \/ CheckerRunSync \/ ValuationRunSync]_vars

SpecRequiredElements == Init /\ [][AddRequiredElement \/ RemoveRequiredElement]_vars

Next == AnalyzerRunSync \/ CheckerRunSync

Spec == Init /\ [][Next]_vars


----------------------------------------------------------------------------
(* Properties: path resolution, presence and score of an element *)

\* a step of a walk that can be taken: a mapping holding the key, or a list and
\* an index inside it
StepOk(v, key) ==
    \/ IsDict(v) /\ key.k = "key" /\ key.s \in DOMAIN v.d
    \/ IsList(v) /\ key.k = "idx" /\ 0 <= key.i /\ key.i < Len(v.l)

\* the value k steps into the path (all of them steps that can be taken)
RECURSIVE ValueAfter(_, _, _)
ValueAfter(root, path, k) ==
    IF k = 0 THEN root
    ELSE LET v == ValueAfter(root, path, k - 1)
         IN  IF IsDict(v) THEN v.d[path[k].s] ELSE v.l[path[k].i + 1]

\* the first k steps of the path can all be taken
RECURSIVE WalkOk(_, _, _)
WalkOk(root, path, k) ==
    k = 0 \/ (WalkOk(root, path, k - 1) /\ StepOk(ValueAfter(root, path, k - 1), path[k]))

\* C8: get_value_from_path returns the value reached iff every step of the path,
\* left to right, finds a mapping holding the key or a list and an index in
\* range; otherwise (a scalar, a negative or out-of-range index, a non-dict
\* root) it returns None; an empty path returns the root.
C8_PathResolution ==
    op = "get_value_from_path" =>
        LET n == Len(args.path_list)
        IN  /\ WalkOk(args.data, args.path_list, n)
                => ret = ValueAfter(args.data, args.path_list, n)
            /\ ~WalkOk(args.data, args.path_list, n) => ret = None
            /\ n = 0 => ret = args.data

\* a walk through a mapping, a mapping and a list that reaches a value
C8_Witness ==
    /\ op = "get_value_from_path"
    /\ args.path_list = <<K("a"), K("a"), I(1)>>
    /\ ret = Obj(<< <<"b", Num(0)>> >>)

\* the value the element's configured path leads to
ResolvedValue == GetValueFromPath(args.data, field_mapping[args.element])

AllWhitespace(chars) == \A i \in DOMAIN chars : chars[i] \in Whitespace

\* C7: is_element_present is false exactly for an unmapped element, None / not
\* found, a string that is empty once stripped, an empty list and an empty
\* mapping; it is true for everything else, the number 0 included.
C7_Presence ==
    op = "is_element_present" =>
        /\ args.element \notin DOMAIN field_mapping => ret = FALSE
        /\ args.element \in DOMAIN field_mapping =>
            /\ ret = FALSE <=>
                  \/ ResolvedValue = None
                  \/ IsStr(ResolvedValue) /\ AllWhitespace(ResolvedValue.s)
                  \/ IsList(ResolvedValue) /\ Len(ResolvedValue.l) = 0
                  \/ IsDict(ResolvedValue) /\ DOMAIN ResolvedValue.d = {}
            /\ ResolvedValue = Num(0) => ret = TRUE
            /\ (args.element = "100_pct_limit" /\ IsDict(ResolvedValue)
                    /\ DOMAIN ResolvedValue.d # {}) => ret = TRUE

\* the number 0 counts as present
C7_Witness ==
    /\ op = "is_element_present"
    /\ args.element = "company_name"
    /\ ResolvedValue = Num(0)
    /\ ret = TRUE

\* the node the score of the element is read from
ScoreNode ==
    LET path == field_mapping[args.element]
    IN  GetValueFromPath(args.data, SubSeq(path, 1, Len(path) - 1) \o <<K("score")>>)

EndsInValue(path) == path # <<>> /\ path[Len(path)] = K("value")

IsNumericText(v) ==
    IsStr(v) /\ Strip(v.s) # <<>> /\ \A i \in DOMAIN Strip(v.s) : Strip(v.s)[i] \in Digits

----------------------------------------------------------------------------
(* Properties: the analyzer's completeness and quality tier *)

AnalyzerSucceeded == op = "analyzer_run_sync" /\ ret.status = "success"

\* how many entries of the list are e
Occurrences(lst, e) == Cardinality({i \in DOMAIN lst : lst[i] = e})

\* the element is classified present in the analyzed document
ClassifiedPresent(e) == IsElementPresent(field_mapping, args.submission_data, e)

\* C3: the aggregate counts required slots: its total is the three list lengths
\* added up and its present count the three present counts added up, so a field
\* required in k categories adds k to the total and, when present, k to present.
C3_AggregateSlots ==
    AnalyzerSucceeded =>
        LET oc == ret.data.overall_completeness
            all == Range(triage_elements) \cup Range(appetite_elements)
                       \cup Range(clearance_elements)
            k == [e \in all |-> Occurrences(triage_elements, e)
                                    + Occurrences(appetite_elements, e)
                                    + Occurrences(clearance_elements, e)]
            here == {e \in all : ClassifiedPresent(e)}
        IN  /\ oc.aggregate.total = Len(triage_elements) + Len(appetite_elements)
                                        + Len(clearance_elements)
            /\ oc.aggregate.present = oc.triage.present + oc.appetite.present
                                          + oc.clearance.present
            /\ oc.aggregate.total = SumOver(all, k)
            /\ oc.aggregate.present = SumOver(here, [e \in here |-> k[e]])

\* a present field required in all three categories counts three times
C3_Witness ==
    /\ AnalyzerSucceeded
    /\ triage_elements = <<"company_name">>
    /\ appetite_elements = <<"company_name">>
    /\ clearance_elements = <<"company_name">>
    /\ ret.data.overall_completeness.aggregate.present = 3
    /\ ret.data.overall_completeness.aggregate.total = 3

\* the average score is at least t: the scores of field_level_accuracy added up
\* against t times their number (the average is 0 when there is none)
AverageAtLeast(t) ==
    LET fla == ret.data.field_level_accuracy
        n == Cardinality(DOMAIN fla)
    IN  SumOver(DOMAIN fla, [e \in DOMAIN fla |-> fla[e].score]) >= t * n /\ (n = 0 => 0 >= t)

\* the overall completeness is at least p percent (100 when nothing is required)
CompletenessAtLeast(p) ==
    LET agg == ret.data.overall_completeness.aggregate
    IN  IF agg.total = 0 THEN 100 >= p ELSE agg.present * 100 >= p * agg.total

\* C4: the tier is High Quality iff average >= high threshold and completeness
\* >= 90; else Good Quality iff average >= good threshold and completeness >=
\* 70; else Needs Improvement.  Average 95 with completeness 95 is High, with
\* completeness 60 Needs Improvement.
C4_QualityTier ==
    /\ AnalyzerSucceeded =>
        LET tier == ret.data.data_quality_tier.tier
            high == AverageAtLeast(high_quality_threshold) /\ CompletenessAtLeast(90)
            good == AverageAtLeast(good_quality_threshold) /\ CompletenessAtLeast(70)
        IN  /\ tier = "High Quality" <=> high
            /\ tier = "Good Quality" <=> ~high /\ good
            /\ tier = "Needs Improvement" <=> ~high /\ ~good
    /\ QualityTier(DefaultConfig, [num |-> 95, den |-> 1], [num |-> 95, den |-> 1])
           = "High Quality"
    /\ QualityTier(DefaultConfig, [num |-> 95, den |-> 1], [num |-> 60, den |-> 1])
           = "Needs Improvement"

\* a high average that the completeness gate keeps out of both upper tiers
C4_Witness ==
    /\ AnalyzerSucceeded
    /\ AverageAtLeast(high_quality_threshold)
    /\ ~CompletenessAtLeast(70)
    /\ ret.data.data_quality_tier.tier = "Needs Improvement"
    /\ ret.data.data_quality_tier.average_score = 9500


Abs(x) == IF x < 0 THEN 0 - x ELSE x

\* reported, in units of 1/scale percent, is present / total * 100 to the nearest
NearestPercent(reported, present, total, scale) ==
    2 * Abs(reported * total - present * 100 * scale) <= total

\* what the analyzer reports for a category whose requirement list is lst
AnalyzerCategoryOk(lst, r, missing) ==
    Len(lst) > 0 =>
        /\ r.total = Len(lst)
        /\ r.present = Cardinality({i \in DOMAIN lst : ClassifiedPresent(lst[i])})
        /\ NearestPercent(r.percentage, r.present, r.total, 100)
        /\ missing = SelectSeq(lst, LAMBDA e : ~ClassifiedPresent(e))
        /\ r.present + Len(missing) = r.total
        /\ 0 <= r.present /\ r.present <= r.total
        /\ 0 <= r.percentage /\ r.percentage <= 10000

CheckerSucceeded == op = "checker_run_sync" /\ "error" \notin DOMAIN ret

\* the required fields of a category, in declaration order: a field is listed
\* once for the category's tag and once more for "Required"
RECURSIVE Slots(_, _)
Slots(required, tag) ==
    IF required = <<>> THEN <<>>
    ELSE (IF tag \in Range(Head(required).categories)
          THEN <<Head(required).field_name>> ELSE <<>>)
         \o (IF "Required" \in Range(Head(required).categories)
             THEN <<Head(required).field_name>> ELSE <<>>)
         \o Slots(Tail(required), tag)

\* the field analysis reports the field complete
ReportedComplete(name) ==
    \E i \in DOMAIN ret.field_details :
        ret.field_details[i].field_name = name /\ ret.field_details[i].status = "complete"

\* what the checker reports for the category with this tag
CheckerCategoryOk(tag, r) ==
    LET slots == Slots(args.required_elements, tag)
    IN  Len(slots) > 0 =>
            /\ r.total_required = Len(slots)
            /\ r.complete_count =
                   Cardinality({i \in DOMAIN slots : ReportedComplete(slots[i])})
            /\ NearestPercent(r.percentage, r.complete_count, r.total_required, 10)
            /\ r.missing_elements = SelectSeq(slots, LAMBDA f : ~ReportedComplete(f))
            /\ r.complete_count + Len(r.missing_elements) = r.total_required
            /\ 0 <= r.complete_count /\ r.complete_count <= r.total_required
            /\ 0 <= r.percentage /\ r.percentage <= 1000

C2_VacuousCompleteness ==
    /\ AnalyzerSucceeded =>
        LET oc == ret.data.overall_completeness
        IN  /\ triage_elements = <<>> => oc.triage.percentage = 10000
            /\ appetite_elements = <<>> => oc.appetite.percentage = 10000
            /\ clearance_elements = <<>> => oc.clearance.percentage = 10000
            /\ oc.aggregate.total = 0 => oc.aggregate.percentage = 10000
    /\ CheckerSucceeded =>
        \A c \in {"triage", "appetite", "clearance"} :
            ret.completeness_analysis[c].total_required = 0
                => ret.completeness_analysis[c].percentage = 1000

\* the mean of score over S, as a ratio; 0 when S is empty
MeanOver(S, score) ==
    IF S = {} THEN [num |-> 0, den |-> 1]
    ELSE [num |-> SumOver(S, score), den |-> Cardinality(S)]

\* the checker found a confidence score for the field at this index: the user
\* supplied the field, or the document holds a score for it
HasConfidence(i) ==
    \/ ret.field_details[i].source = "user_modified"
    \/ Truthy(ExtractFieldValue(args.field_mappings, args.fetched,
                                ret.field_details[i].field_name).score)

\* C5: in the analyzer and in the checker the average confidence behind the
\* quality tier / quality score is the mean over the present fields that have a
\* confidence score; a present field without one is left out, never counted 0.
C5_AverageOverScored ==
    /\ AnalyzerSucceeded =>
        LET all == Range(triage_elements) \cup Range(appetite_elements)
                       \cup Range(clearance_elements)
            scored == {e \in all :
                          /\ ClassifiedPresent(e)
                          /\ GetAccuracyScore(field_mapping, args.submission_data, e) # None}
            score == [e \in scored |->
                         GetAccuracyScore(field_mapping, args.submission_data, e).n]
        IN  ret.data.data_quality_tier.average_score = Round2(MeanOver(scored, score))
    /\ CheckerSucceeded =>
        LET fd == ret.field_details
            scored == {i \in DOMAIN fd : fd[i].status = "complete" /\ HasConfidence(i)}
            score == [i \in scored |-> fd[i].confidence_score]
        IN  ret.analysis_summary.quality_score =
                WeightedQuality(ret.completeness_analysis.triage.percentage,
                                MeanOver(scored, score),
                                ret.completeness_analysis.appetite.percentage)

----------------------------------------------------------------------------
(* Properties: the checker's extraction and user modifications *)

\* C6: for a field mapped to a list of paths, _extract_field_value returns the
\* value and score of the first path that resolves (whose lookup is not
\* (None, None)); later paths do not change the result, even when they resolve
\* to another value.
C6_FirstPathWins ==
    (op = "extract_field_value" /\ args.field_name \in DOMAIN args.field_mappings) =>
        LET paths == args.field_mappings[args.field_name]
            at(k) == GetNestedValue(args.data, paths[k])
            resolves(k) == at(k).value # None
        IN  /\ (\E k \in DOMAIN paths : resolves(k)) =>
                   \E k \in DOMAIN paths :
                       /\ resolves(k)
                       /\ \A j \in 1..(k - 1) : ~resolves(j)
                       /\ ret = at(k)
            /\ (\A k \in DOMAIN paths : ~resolves(k)) => ret = NotFound

\* two paths that resolve to different values: the first one is returned
C6_Witness ==
    /\ op = "extract_field_value"
    /\ args.field_name = "company_name"
    /\ Len(args.field_mappings["company_name"]) = 2
    /\ GetNestedValue(args.data, args.field_mappings["company_name"][1]).value = Str(Acme)
    /\ GetNestedValue(args.data, args.field_mappings["company_name"][2]).value = Str(Url)
    /\ ret.value = Str(Acme)

\* C10: every required field named in the user modifications is reported with
\* the string form str(v) of the user's value v, status complete, confidence 100
\* and source user_modified, whatever the document held; no other field has
\* source user_modified.
C10_UserModified ==
    CheckerSucceeded =>
        \A i \in DOMAIN args.required_elements :
            LET name == args.required_elements[i].field_name
                fd == ret.field_details[i]
                mods == args.user_modifications.entries
            IN  /\ fd.field_name = name
                /\ name \in ModFields(mods) =>
                    /\ fd.value = PyStr(ModValue(mods, name))
                    /\ fd.status = "complete"
                    /\ fd.confidence_score = 100
                    /\ fd.source = "user_modified"
                /\ name \notin ModFields(mods) => fd.source # "user_modified"

\* a field the document scored 60 is overridden by the user
C10_Witness ==
    /\ CheckerSucceeded
    /\ args.required_elements = ChkRequiredElements
    /\ GetNestedValue(args.fetched, <<"Common", "Firmographics", "company_name">>)
           = [value |-> Str(Acme), score |-> Num(60)]
    /\ args.user_modifications = Mods(<<[field_name |-> "company_name", value |-> Num(5)]>>)
    /\ ret.field_details[1] =
           [field_name |-> "company_name", categories |-> <<"T", "A", "C">>,
            status |-> "complete", confidence_score |-> 100, value |-> <<"5">>,
            source |-> "user_modified"]
    /\ ret.field_details[2].source = "original"

\* C10 as first stated: the reported value is the user's value itself, a number
\* staying a number
C10_UserValueVerbatim ==
    CheckerSucceeded =>
        \A i \in DOMAIN args.required_elements :
            LET name == args.required_elements[i].field_name
                mods == args.user_modifications.entries
            IN  name \in ModFields(mods) =>
                    /\ ret.field_details[i].source = "user_modified"
                    /\ Str(ret.field_details[i].value) = ModValue(mods, name)


\* C11: applying the same user modifications to the already modified document
\* changes nothing, the field analysis of the twice-modified document is the
\* analysis of the once-modified one, and the call leaves its input document as
\* it was.
C11_ApplyIdempotent ==
    op = "apply_user_modifications" =>
        /\ ret.submission_data = args.submission_data
        /\ ret.ok =>
            LET again == ApplyUserModificationsCall(args.field_mappings, ret.data,
                                                    args.modifications)
            IN  /\ again.ok
                /\ again.data = ret.data
                /\ AnalyzeFields(ChkRequiredElements, args.field_mappings, again.data,
                                 args.modifications)
                       = AnalyzeFields(ChkRequiredElements, args.field_mappings, ret.data,
                                       args.modifications)

\* a modification that rewrites a scored field of the document
C11_Witness ==
    /\ op = "apply_user_modifications"
    /\ args.field_mappings = ChkFieldMappings
    /\ GetNestedValue(args.submission_data, <<"Common", "Firmographics", "company_name">>)
           = [value |-> Str(Acme), score |-> Num(60)]
    /\ args.modifications = <<[field_name |-> "company_name", value |-> Str(Url)]>>
    /\ ret.ok
    /\ ret.data # args.submission_data
    /\ GetNestedValue(ret.data, <<"Common", "Firmographics", "company_name">>).value
           = Str(Url)

----------------------------------------------------------------------------
(* Properties: the analyzer's next steps, failures and configuration *)

\* the place of a next-step message in the priority order
StepRank(step) ==
    CASE step = "appetite" -> 1 [] step = "triage" -> 2 [] step = "clearance" -> 3
      [] OTHER -> 4

\* C12: next_steps holds one entry per category with missing elements, in the
\* order appetite, triage, clearance; it is the single "proceed" message iff
\* nothing is missing; its length is between 1 and 3.
C12_NextSteps ==
    AnalyzerSucceeded =>
        LET steps == ret.data.next_steps
            missing == ret.data.missing_required_elements
        IN  /\ \A c \in {"appetite", "triage", "clearance"} :
                   missing[c] # <<>> <=>
                       \E i \in DOMAIN steps :
                           steps[i] = [step |-> c, elements |-> missing[c]]
            /\ \A i, j \in DOMAIN steps :
                   i < j => StepRank(steps[i].step) < StepRank(steps[j].step)
            /\ steps = <<[step |-> "proceed", elements |-> <<>>]>> <=>
                   (missing.appetite = <<>> /\ missing.triage = <<>>
                    /\ missing.clearance = <<>>)
            /\ 1 <= Len(steps) /\ Len(steps) <= 3

\* all three categories have missing elements
C12_Witness ==
    /\ AnalyzerSucceeded
    /\ ret.data.missing_required_elements.appetite # <<>>
    /\ ret.data.missing_required_elements.triage # <<>>
    /\ ret.data.missing_required_elements.clearance # <<>>
    /\ Len(ret.data.next_steps) = 3
    /\ ret.data.next_steps[1].step = "appetite"
    /\ ret.data.next_steps[2].step = "triage"
    /\ ret.data.next_steps[3].step = "clearance"

\* C15: a supplied field_mapping is merged key by key: every field it names has
\* the supplied path afterwards, every other default field keeps its default
\* path, and the requirement lists and thresholds the configuration does not
\* name stay at their defaults.
C15_FieldMappingMerge ==
    (AnalyzerSucceeded /\ "field_mapping" \in DOMAIN args.config) =>
        LET supplied == args.config["field_mapping"]
            kept(k, now) == k \notin DOMAIN args.config => now = DefaultConfig[k]
        IN  /\ DOMAIN field_mapping = DOMAIN DefaultFieldMapping \cup DOMAIN supplied
            /\ \A f \in DOMAIN supplied : field_mapping[f] = supplied[f]
            /\ \A f \in DOMAIN DefaultFieldMapping \ DOMAIN supplied :
                   field_mapping[f] = DefaultFieldMapping[f]
            /\ kept("triage_elements", triage_elements)
            /\ kept("appetite_elements", appetite_elements)
            /\ kept("clearance_elements", clearance_elements)
            /\ kept("high_quality_threshold", high_quality_threshold)
            /\ kept("good_quality_threshold", good_quality_threshold)

\* the path of one default field is replaced, the others stay
C15_Witness ==
    /\ AnalyzerSucceeded
    /\ DOMAIN args.config = {"field_mapping"}
    /\ DOMAIN args.config["field_mapping"] = {"website"}
    /\ field_mapping["website"] = args.config["field_mapping"]["website"]
    /\ field_mapping["website"] # DefaultFieldMapping["website"]
    /\ field_mapping["company_name"] = DefaultFieldMapping["company_name"]
    /\ triage_elements = DefaultConfig.triage_elements

----------------------------------------------------------------------------
(* Properties: PropertyValuationTool, merging the two sections *)

\* the merge of a call ran to its end
MergeRan == op = "extract_properties" /\ ret.ok

\* the records of the two sections of the call's document
StdOfCall == StandardProperties(args.submission_data)

AdvOfCall == AdvancedProperties(args.submission_data).properties

\* the merged records once the first k advanced records are placed as the log says
RECURSIVE MergedAfter(_)
MergedAfter(k) ==
    IF k = 0 THEN [i \in DOMAIN StdOfCall |-> AsStandardProperty(StdOfCall[i], i)]
    ELSE LET before == MergedAfter(k - 1)
         IN  IF ret.log[k].rule = "new"
             THEN Append(before, AsNewProperty(AdvOfCall[k], Len(before) + 1))
             ELSE [before EXCEPT ![ret.log[k].property] = UpdateWith(@, AdvOfCall[k])]

TextOf(data, key) == IF IsStr(GetOr(data, key)) THEN GetOr(data, key).s ELSE <<>>

\* the records rule r (1: document id, 2: location id, 3: normalized address,
\* 4: more than one shared word) admits for the k-th advanced record
Candidates(r, k) ==
    LET a == AdvOfCall[k]
        before == MergedAfter(k - 1)
    IN  CASE r = 1 ->
                {i \in DOMAIN StdOfCall :
                    /\ "_location_doc_id" \in DOMAIN a
                    /\ Truthy(GetOr(StdOfCall[i], "location_doc_id"))
                    /\ PyStr(StdOfCall[i]["location_doc_id"]) = a["_location_doc_id"].s}
          [] r = 2 ->
                {i \in DOMAIN before :
                    /\ Truthy(GetOr(a, "location_id"))
                    /\ Truthy(GetOr(before[i], "location_id"))
                    /\ PyEq(before[i]["location_id"], a["location_id"])}
          [] r = 3 ->
                {i \in DOMAIN StdOfCall :
                    /\ TextOf(a, "location_address") # <<>>
                    /\ TextOf(StdOfCall[i], "location_address") # <<>>
                    /\ CleanAddr(TextOf(StdOfCall[i], "location_address"))
                           = CleanAddr(TextOf(a, "location_address"))}
          [] r = 4 ->
                {i \in DOMAIN before :
                    Cardinality(WordsOf(TextOf(before[i], "location_address"))
                                    \cap WordsOf(TextOf(a, "location_address"))) > 1}

RuleNames == <<"doc_id", "location_id", "address", "similar_address">>

\* the first of the four rules that admits a record for the k-th advanced
\* record, 0 when none does
FirstRule(k) ==
    IF \A r \in 1..4 : Candidates(r, k) = {} THEN 0
    ELSE CHOOSE r \in 1..4 :
            Candidates(r, k) # {} /\ \A q \in 1..(r - 1) : Candidates(q, k) = {}

NewEntries == {k \in DOMAIN ret.log : ret.log[k].rule = "new"}

C20_PositionalSlotUnused ==
    MergeRan =>
        \A k \in DOMAIN ret.log :
            ret.log[k].rule = "position" =>
                /\ Len(AdvOfCall) = Len(StdOfCall)
                /\ ret.log[k].property \in DOMAIN StdOfCall
                /\ \A q \in 1..(k - 1) : ret.log[q].property # ret.log[k].property

\* the normalized address of a record, <<>> when it has none
NormalizedAddress(data) == CleanAddr(TextOf(data, "location_address"))

SameAddress(i, k) ==
    /\ NormalizedAddress(StdOfCall[i]) # <<>>
    /\ NormalizedAddress(StdOfCall[i]) = NormalizedAddress(AdvOfCall[k])

\* no rule of higher priority places the k-th advanced record elsewhere, and
\* no later standard record has the address of the i-th
AddressDecides(i, k) ==
    /\ SameAddress(i, k)
    /\ Candidates(1, k) \subseteq {i}
    /\ Candidates(1, k) = {} => Candidates(2, k) \subseteq {i}
    /\ \A j \in Candidates(3, k) : j <= i

PlainKeys(data) == {f \in DOMAIN data : ~IsHelperKey(f)}

\* the final records that carry the address of the i-th merged record
FinalRecordsOf(i) ==
    {p \in DOMAIN ret.properties :
        ret.properties[p]["address"] = CleanProperty(ret.merged[i]).property["address"]}

ValuationRan == op = "valuation_run_sync"

\* the valuations of the call, none when the call failed
Valuations ==
    IF ValuationRan /\ "error" \notin DOMAIN ret THEN ret.property_valuations ELSE <<>>

\* the valuation carries the risk flag
HasFlag(v, name) == \E j \in DOMAIN v.risk_flags : v.risk_flags[j] = name

\* C17: a property whose square footage is missing or not positive is valued
\* at its reported building value, with a variance of 0 and the flag
\* MISSING_SQUARE_FOOTAGE, whatever its construction type, state, occupancy,
\* age and sprinkler status
C17_NoSquareFootage ==
    \A i \in DOMAIN Valuations :
        LET v == Valuations[i]
        IN  v.details.square_footage <= 0 =>
                /\ v.calculated_value = Whole(v.reported_value)
                /\ v.variance_percentage = Whole(0)
                /\ HasFlag(v, "MISSING_SQUARE_FOOTAGE")

\* a sprinklered masonry shop of 1900 in California, reported at 1,000,000 with
\* a square footage of 0, is valued at 1,000,000
C17_Witness ==
    /\ ValuationRan
    /\ args.fetched =
        PropertyDoc(<<ValuedItem(Str(MainSt), Num(1000000), Num(0), Num(1900),
                                 Str(<<"m", "a", "s", "o", "n", "r", "y">>),
                                 Str(<<"R", "e", "t", "a", "i", "l">>),
                                 Str(<<"c", "a">>), Str(<<"Y", "e", "s">>), Absent)>>)
    /\ Len(Valuations) = 1
    /\ Valuations[1].details.square_footage = 0
    /\ Valuations[1].details.building_age > 75
    /\ Valuations[1].details.sprinklered
    /\ Valuations[1].calculated_value = Whole(1000000)
    /\ Valuations[1].risk_flags = <<"MISSING_SQUARE_FOOTAGE">>

\* the cost per square foot of a construction type of the table
CostOf(construction_type) ==
    LET rows == {i \in DOMAIN ConstructionCosts :
                    ConstructionCosts[i].name = construction_type}
    IN  ConstructionCosts[FirstOf(rows)].cost

\* the factor of an occupancy of the table, in hundredths
FactorOf(occupancy) ==
    LET rows == {i \in DOMAIN OccupancyFactors : OccupancyFactors[i].name = occupancy}
    IN  OccupancyFactors[FirstOf(rows)].factor

\* the multiplier of a state code, in hundredths; 1.0 for a code the table
\* does not hold
MultiplierOf(state) ==
    LET rows == {i \in DOMAIN StateTable : StateTable[i].code = state}
    IN  IF rows = {} THEN 100 ELSE StateTable[FirstOf(rows)].multiplier

\* the age factor of the statement, in hundredths
AgeBracket(age) ==
    CASE age <= 10 -> 100
      [] age > 10 /\ age <= 25 -> 105
      [] age > 25 /\ age <= 50 -> 110
      [] age > 50 /\ age <= 75 -> 115
      [] age > 75 -> 120

\* square footage x base cost x state multiplier x occupancy factor x age
\* factor x sprinkler factor, for the details of a valuation
FormulaOf(d) ==
    RatMul(Whole(d.square_footage),
           RatMul(Rat(CostOf(d.construction_type) * MultiplierOf(d.state), 100),
                  RatMul(Rat(FactorOf(d.occupancy) * AgeBracket(d.building_age), 10000),
                         Rat(IF d.sprinklered THEN 95 ELSE 100, 100))))

Office == <<"O", "f", "f", "i", "c", "e">>

\* the details of the example: 10,000 square feet, Frame, Illinois, Office,
\* at most ten years old, no sprinklers
IsExample(d) ==
    /\ d.square_footage = 10000
    /\ d.construction_type = Frame
    /\ d.state = <<"I", "L">>
    /\ d.occupancy = Office
    /\ d.building_age <= 10
    /\ ~d.sprinklered

\* C18: a property with a positive square footage is valued at square footage x
\* base cost of its construction type x multiplier of its state x factor of its
\* occupancy x age factor (1.0 up to 10 years, 1.05 up to 25, 1.10 up to 50,
\* 1.15 up to 75, 1.20 above) x 0.95 when sprinklered; 10,000 square feet of
\* Frame in Illinois, Office, at most ten years old and unsprinklered, come to
\* 1,287,500
C18_ReplacementCostFormula ==
    \A i \in DOMAIN Valuations :
        LET v == Valuations[i]
        IN  v.details.square_footage > 0 =>
                /\ v.calculated_value = FormulaOf(v.details)
                /\ IsExample(v.details) => v.calculated_value = Whole(1287500)

\* the example is valued: built in 2020, no occupancy and no sprinklers given
C18_Witness ==
    /\ ValuationRan
    /\ Len(Valuations) = 1
    /\ args.fetched =
        PropertyDoc(<<ValuedItem(Str(MainSt), Node(Num(1000000), Num(95)), Num(10000),
                                 Num(2020), Str(Frame), Absent, Str(<<"I", "L">>),
                                 Absent, Absent)>>)
    /\ IsExample(Valuations[1].details)
    /\ Valuations[1].calculated_value = Whole(1287500)

(***************************************************************************)
(* Properties: the results of run_sync                                     *)
(***************************************************************************)

AnalyzerRan == op = "analyzer_run_sync"

CheckerRan == op = "checker_run_sync"

\* the messages of the failure results
FailureMessages ==
    {"no_transaction_id", "no_submission_data", "no_property_data",
     "error_during_analysis"}

\* the analyzer's result: a success with data and no message, or an error with
\* a message and no data
AnalyzerResultWellFormed ==
    /\ DOMAIN ret = {"status", "data", "message"}
    /\ \/ ret.status = "success" /\ ret.data # None /\ ret.message = None
       \/ ret.status = "error" /\ ret.data = None /\ ret.message \in FailureMessages
    /\ ~Truthy(args.submission_data) => ret.status = "error"

CheckerSections ==
    {"analysis_summary", "completeness_analysis", "data_quality_tiers",
     "risk_assessment", "next_steps"}

\* the checker's result: every section and the field details, or an error
\* message with every section empty
CheckerResultWellFormed ==
    /\ \/ DOMAIN ret = CheckerSections \cup {"field_details", "transaction_id"}
       \/ /\ DOMAIN ret = CheckerSections \cup {"transaction_id", "error"}
          /\ ret.error \in FailureMessages
          /\ \A s \in CheckerSections : DOMAIN ret[s] = {}
    /\ ret.transaction_id = args.transaction_id
    /\ (args.transaction_id = "" \/ ~Truthy(args.fetched)) => "error" \in DOMAIN ret

ValuationSections ==
    {"analysis_summary", "property_valuations", "anomalies", "total_valuation"}

\* every metric of the section is zero, the quality apart
Zeroed(section) ==
    \A k \in DOMAIN section :
        CASE k = "valuation_quality" -> section[k] = "Unknown"
          [] k \in {"total_properties", "properties_with_risk_flags"} -> section[k] = 0
          [] OTHER -> section[k] = Whole(0)

\* the valuation's result: every section, or an error message with no
\* valuation, no anomaly and metrics that are empty or zero
ValuationResultWellFormed ==
    /\ \/ DOMAIN ret = ValuationSections \cup {"transaction_id"}
       \/ /\ DOMAIN ret = ValuationSections \cup {"transaction_id", "error"}
          /\ ret.error \in FailureMessages
          /\ ret.property_valuations = <<>>
          /\ ret.anomalies = <<>>
          /\ Zeroed(ret.analysis_summary)
          /\ Zeroed(ret.total_valuation)
    /\ ret.transaction_id = args.transaction_id
    /\ (args.transaction_id = "" \/ ~Truthy(args.fetched) \/ ~IsDict(args.fetched))
            => "error" \in DOMAIN ret

\* C13: run_sync of the analyzer, the checker and the valuation tool returns a
\* well-formed result for every input: a missing document, a missing
\* transaction id, a document that is not a mapping, a configuration or a
\* modification that raises all give a failure result with a message and with
\* no data (analyzer) or empty or zeroed sections (checker, valuation)
C13_NoExceptionEscapes ==
    /\ AnalyzerRan => AnalyzerResultWellFormed
    /\ CheckerRan => CheckerResultWellFormed
    /\ ValuationRan => ValuationResultWellFormed

\* the valuation of a document that is a list: the extraction raises and the
\* result is the failure result
C13_Witness ==
    /\ ValuationRan
    /\ args.transaction_id = "tx-1"
    /\ args.fetched = List(<<Num(1)>>)
    /\ ret = [analysis_summary |-> <<>>, property_valuations |-> <<>>,
              anomalies |-> <<>>, total_valuation |-> <<>>,
              transaction_id |-> "tx-1", error |-> "error_during_analysis"]

\* no element of the three categories resolves in the document of the call
NothingResolves ==
    \A elements \in {triage_elements, appetite_elements, clearance_elements} :
        \A i \in DOMAIN elements :
            ~IsElementPresent(field_mapping, args.submission_data, elements[i])

\* C14: when the document is present but no required field resolves through
\* the field mapping, the analyzer reports a failure (status "error"), not a
\* success
C14_NoExtractableDataFails ==
    (AnalyzerRan /\ Truthy(args.submission_data) /\ NothingResolves)
        => ret.status = "error"

(***************************************************************************)
(* Properties: PropertyValuationTool, the final deduplication              *)
(***************************************************************************)

\* the clean records of the merged records of the call, before the
\* deduplication
CleanOfCall == [i \in DOMAIN ret.merged |-> CleanProperty(ret.merged[i]).property]

\* the clean records with the address, by position
GroupOf(clean, address) == {i \in DOMAIN clean : clean[i]["address"] = address}

MaxIn(S) == CHOOSE x \in S : \A y \in S : y <= x

\* the record is the first of the group for its id and address, and for the
\* other fields the first truthy value of the group (a falsy value when the
\* group has none)
KeepsFirstValues(clean, rec, group) ==
    /\ rec["address"] = clean[FirstOf(group)]["address"]
    /\ rec["property_id"] = clean[FirstOf(group)]["property_id"]
    /\ \A f \in DOMAIN rec \ (NumericFields \cup {"address", "property_id"}) :
          LET filled == {i \in group : Truthy(clean[i][f])}
          IN  IF filled # {} THEN rec[f] = clean[FirstOf(filled)][f]
              ELSE ~Truthy(rec[f])

\* the record of the output that stands for the group
RecordOf(clean, out, group) ==
    out[CHOOSE p \in DOMAIN out : out[p]["address"] = clean[FirstOf(group)]["address"]]

Groups(clean) == {GroupOf(clean, clean[i]["address"]) : i \in DOMAIN clean}

\* C21: after the deduplication no two records have one address or one
\* property_id; a lone record is kept as it is; a group of records with one
\* address gives one record with the first record's property_id, for building
\* value, square footage, content value and business income value the maximum
\* of the group's values that are not zero (0 when all are zero), and for the
\* other fields the first non-empty value in group order.
C21_Deduplication ==
    MergeRan =>
        \E clean \in {CleanOfCall} :
            /\ \A p, q \in DOMAIN ret.properties :
                  p # q => /\ ret.properties[p]["address"] # ret.properties[q]["address"]
                           /\ ret.properties[p]["property_id"]
                                 # ret.properties[q]["property_id"]
            /\ Len(ret.properties) = Cardinality(Groups(clean))
            /\ \A group \in Groups(clean) :
                  \E rec \in {RecordOf(clean, ret.properties, group)} :
                      /\ DOMAIN rec = DOMAIN clean[FirstOf(group)]
                      /\ Cardinality(group) = 1 => rec = clean[FirstOf(group)]
                      /\ KeepsFirstValues(clean, rec, group)
                      /\ \A f \in NumericFields :
                            LET given == {clean[i][f].n : i \in group} \ {0}
                            IN  rec[f] = Num(IF given = {} THEN 0 ELSE MaxIn(given))

\* two records of one address: the building value is the second's (the
\* maximum), the construction type the first's, the year built the second's
\* (the first has none), the id the first's
C21_Witness ==
    /\ MergeRan
    /\ Len(ret.merged) = 2
    /\ Len(ret.properties) = 1
    /\ CleanOfCall[1]["building_value"] = Num(500000)
    /\ CleanOfCall[2]["building_value"] = Num(1000000)
    /\ ret.properties[1]["building_value"] = Num(1000000)
    /\ CleanOfCall[2]["construction_type"] = Str(Frame)
    /\ ret.properties[1]["construction_type"] = Str(Masonry)
    /\ CleanOfCall[1]["year_built"] = Num(0)
    /\ ret.properties[1]["year_built"] = Num(1990)
    /\ ret.properties[1]["content_value"] = Num(100000)
    /\ ret.properties[1]["property_id"] = CleanOfCall[1]["property_id"]

\* C21 as stated: the four numeric fields are the maximum over the group
C21_MaximumOverGroup ==
    MergeRan =>
        \E clean \in {CleanOfCall} :
            \A group \in Groups(clean), f \in NumericFields :
                RecordOf(clean, ret.properties, group)[f].n
                    = MaxIn({clean[i][f].n : i \in group})

----------------------------------------------------------------------------
(* Properties: PropertyValuationTool, risk flags and risk score *)

\* C22: the risk flags of a valuation are a set of tags: no tag,
\* MISSING_BUILDING_VALUE included, is in the list more than once
C22_FlagsAreASet ==
    \A i \in DOMAIN Valuations :
        \A j, k \in DOMAIN Valuations[i].risk_flags :
            j # k => Valuations[i].risk_flags[j] # Valuations[i].risk_flags[k]

\* n points when the valuation carries one of the flags
PointsFor(v, names, n) == IF \E name \in names : HasFlag(v, name) THEN n ELSE 0

\* the fixed points of the flag categories of a valuation
FixedPoints(v) ==
    PointsFor(v, {"POTENTIAL_UNDERINSURANCE"}, 35)
        + PointsFor(v, {"HIGH_VARIANCE"}, 20)
        + PointsFor(v, {"POTENTIAL_OVERINSURANCE"}, 15)
        + PointsFor(v, {"MISSING_SQUARE_FOOTAGE", "MISSING_BUILDING_VALUE"}, 10)
        + PointsFor(v, {"HIGH_CONTENT_RATIO", "LOW_CONTENT_RATIO"}, 5)

\* the building-age part: 15 points per hundred years, at most 15, and
\* nothing for an age that is not positive
AgePart(v) ==
    IF v.details.building_age > 0
    THEN RatMin(Rat(v.details.building_age * 15, 100), Whole(15))
    ELSE Whole(0)

\* the roof-age part: 10 points per 25 years, at most 10, and nothing when
\* the record has no positive roof age
RoofPart(v) ==
    IF v.details.roof_age # None
    THEN RatMin(Rat(v.details.roof_age.n * 10, 25), Whole(10))
    ELSE Whole(0)

\* what the score holds beyond the fixed points, the age and the roof parts
VariancePart(v) ==
    RatSub(v.risk_score, RatAdd(Whole(FixedPoints(v)), RatAdd(AgePart(v), RoofPart(v))))

\* 0 <= a <= n
RatWithin(a, n) == ~RatLt(a, Whole(0)) /\ ~RatLt(Whole(n), a)

\* C23: the risk score of every valuation lies in [0, 100] and is the sum,
\* capped at 100, of the fixed points of its flag categories, a building-age
\* part of at most 15, a roof-age part of at most 10 and a variance part
\* between 0 and 10; an age that is not positive and a roof age that is not
\* positive add nothing
C23_RiskScore ==
    \A i \in DOMAIN Valuations :
        LET v == Valuations[i]
        IN  /\ RatWithin(v.risk_score, 100)
            /\ RatWithin(AgePart(v), 15)
            /\ RatWithin(RoofPart(v), 10)
            /\ v.details.roof_age # None => v.details.roof_age.n > 0
            /\ \/ RatWithin(VariancePart(v), 10)
               \/ v.risk_score = Whole(100) /\ ~RatLt(VariancePart(v), Whole(0))

\* a valuation with points for over-insurance and high variance whose age,
\* roof and variance parts all count
C23_Witness ==
    \E i \in DOMAIN Valuations :
        LET v == Valuations[i]
        IN  /\ FixedPoints(v) = 35
            /\ RatLt(Whole(0), AgePart(v))
            /\ RatLt(Whole(0), RoofPart(v))
            /\ RatLt(Whole(0), VariancePart(v))

\* C24: the variance part of the risk score is added only to a property
\* whose reported value is below its calculated value
C24_UnderValuationOnly ==
    \A i \in DOMAIN Valuations :
        LET v == Valuations[i]
        IN  RatLt(Whole(0), VariancePart(v))
                => RatLt(Whole(v.reported_value), v.calculated_value)

\* C30: a valuation never carries both the under-insurance and the
\* over-insurance flag; the under-insurance flag comes with HIGH_VARIANCE;
\* the over-insurance flag comes with a reported value more than 30 percent
\* above the calculated one and with HIGH_VARIANCE exactly when the
\* variance is below -25 percent
C30_InsuranceFlags ==
    \A i \in DOMAIN Valuations :
        LET v == Valuations[i]
        IN  /\ ~(HasFlag(v, "POTENTIAL_UNDERINSURANCE")
                    /\ HasFlag(v, "POTENTIAL_OVERINSURANCE"))
            /\ HasFlag(v, "POTENTIAL_UNDERINSURANCE") => HasFlag(v, "HIGH_VARIANCE")
            /\ HasFlag(v, "POTENTIAL_OVERINSURANCE")
                    => /\ RatLt(RatMul(v.calculated_value, Rat(130, 100)),
                                Whole(v.reported_value))
                       /\ HasFlag(v, "HIGH_VARIANCE")
                            <=> RatLt(v.variance_percentage, Whole(-25))

\* a valuation with the over-insurance flag and without HIGH_VARIANCE
C30_Witness ==
    \E i \in DOMAIN Valuations :
        /\ HasFlag(Valuations[i], "POTENTIAL_OVERINSURANCE")
        /\ ~HasFlag(Valuations[i], "HIGH_VARIANCE")

\* C30 as the specification states it: never both flags, and HIGH_VARIANCE
\* with either of them
C30_HighVarianceWithEither ==
    \A i \in DOMAIN Valuations :
        LET v == Valuations[i]
        IN  /\ ~(HasFlag(v, "POTENTIAL_UNDERINSURANCE")
                    /\ HasFlag(v, "POTENTIAL_OVERINSURANCE"))
            /\ HasFlag(v, "POTENTIAL_UNDERINSURANCE")
                    \/ HasFlag(v, "POTENTIAL_OVERINSURANCE")
                => HasFlag(v, "HIGH_VARIANCE")

----------------------------------------------------------------------------
(* Properties: PropertyValuationTool, the portfolio *)

\* the canonical records the merger gives for the document of the call
CanonicalRecords ==
    IF Valuations = <<>> THEN <<>>
    ELSE ExtractPropertiesFromSubmission(args.fetched).properties

\* the sum of a numeric field over the canonical records
TotalOf(field) ==
    RatSum([i \in DOMAIN CanonicalRecords |-> Whole(CanonicalRecords[i][field].n)])

\* C25: the portfolio totals are the sums of the building, content and
\* business income values of the canonical records, and total_properties is
\* the number of those records
C25_PortfolioTotals ==
    Valuations # <<>> =>
        /\ ret.analysis_summary.total_properties = Len(CanonicalRecords)
        /\ ret.analysis_summary.total_building_value = TotalOf("building_value")
        /\ ret.analysis_summary.total_content_value = TotalOf("content_value")
        /\ ret.analysis_summary.total_business_income_value
                = TotalOf("business_income_value")

\* C26: a valuation depends on its own record only: a property valued
\* without a square footage carries no calculation block, whatever was
\* valued before it
C26_NoCalculationWithoutFootage ==
    \A i \in DOMAIN Valuations :
        Valuations[i].details.square_footage <= 0 => ~Valuations[i].calculation.given

----------------------------------------------------------------------------
(* Properties: SubmissionCompletenessChecker, readiness and urgency *)

\* C29: in a successful result the readiness and the urgency agree: High
\* with Low, Medium with Medium, Low with High
C29_ReadinessMatchesUrgency ==
    CheckerSucceeded =>
        LET readiness == ret.risk_assessment.underwriting_readiness
            urgency == ret.next_steps.urgency_level
        IN  /\ readiness = "High" <=> urgency = "Low"
            /\ readiness = "Medium" <=> urgency = "Medium"
            /\ readiness = "Low" <=> urgency = "High"

----------------------------------------------------------------------------
(* Properties: SubmissionCompletenessChecker, the reach of a modification *)

\* the analysis the field of the entry gets for the document as it was
\* fetched, with no modification
UnmodifiedAnalysis(entry) ==
    AnalyzeOneField(args.field_mappings, args.fetched, <<>>, entry)

\* C27: a user modification changes the analysis of the modified fields
\* only: every required field that is not modified has the status, value,
\* confidence_score and source it has for the unmodified document
C27_ModificationIsLocal ==
    CheckerSucceeded =>
        \A i \in DOMAIN ret.field_details :
            ret.field_details[i].field_name
                    \notin ModFields(args.user_modifications.entries)
                => /\ UnmodifiedAnalysis(args.required_elements[i]).ok
                   /\ UnmodifiedAnalysis(args.required_elements[i]).field
                        = ret.field_details[i]

----------------------------------------------------------------------------
(* Properties: InsuranceSubmissionAnalyzer, the lists of required elements *)

\* the three lists, by the name of their category
RequiredLists ==
    [triage |-> triage_elements, appetite |-> appetite_elements,
     clearance |-> clearance_elements]

\* the categories the name of the last call stands for: one, or none for an
\* unknown name
NamedCategories ==
    {c \in DOMAIN CategoryTexts : Lower(args.category) = CategoryTexts[c]}

RequiredElementCalled == op \in {"add_required_element", "remove_required_element"}

\* no list holds an element twice; after add the named list holds the
\* element once, after remove not at all; an unknown name raises ValueError
\* and a known one does not
AfterRequiredElementCall ==
    /\ \A c \in DOMAIN RequiredLists :
            \A i, j \in DOMAIN RequiredLists[c] :
                i # j => RequiredLists[c][i] # RequiredLists[c][j]
    /\ RequiredElementCalled =>
            /\ \A c \in NamedCategories :
                    Occurrences(RequiredLists[c], args.element)
                        = IF op = "add_required_element" THEN 1 ELSE 0
            /\ ret = UnknownCategory <=> NamedCategories = {}
            /\ ret = None <=> NamedCategories # {}

\* a call leaves the lists of the categories it does not name as they are,
\* and a call that repeats the one before it leaves all three as they are
RequiredElementStep ==
    RequiredElementCalled' =>
        /\ \A c \in DOMAIN RequiredLists :
                Lower(args'.category) # CategoryTexts[c]
                    => RequiredLists'[c] = RequiredLists[c]
        /\ (op' = op /\ args' = args) => RequiredLists' = RequiredLists

\* C28: from the default configuration, through any sequence of
\* add_required_element and remove_required_element calls: a call changes
\* the list of the named category only (the name is matched without regard
\* to case); after add the list holds the element exactly once and after
\* remove not at all; no list holds a duplicate; a repeated call changes
\* nothing; an unknown category raises ValueError and changes no list
C28_RequiredElementCalls == []AfterRequiredElementCall /\ [][RequiredElementStep]_vars

\* an element was added under an upper-case name to a list that did not
\* hold it, after an earlier call
C28_Witness ==
    /\ op = "add_required_element"
    /\ args.category # Lower(args.category)
    /\ args.element = "naics_year"
    /\ Occurrences(clearance_elements, "naics_year") = 1
    /\ Occurrences(appetite_elements, "company_name") = 0
    /\ Occurrences(triage_elements, "naics_year") = 1

====
